---- MODULE Spec2Model ----
(***************************************************************************)
(* A model of the Sluice message broker: the credit balance, the           *)
(* connection registry, and the publish / group-commit / delivery path.    *)
(*                                                                         *)
(* The specifications share the module's variables:                        *)
(*   Spec          publish handlers, the writer, the durable log, and a    *)
(*                 kill and restart of the process                         *)
(*   SpecSub       a subscription stream served while the writer commits   *)
(*   SpecResume    acks, the durable cursor, a kill of the process and     *)
(*                 later subscriptions of the same consumer group          *)
(*   SpecValidate  the input validation of the publish handlers            *)
(*   SpecErrors    publishes answered by a writer that fails or panics     *)
(*   SpecCredit    concurrent callers of one CreditBalance                 *)
(*   SpecRegistry  subscribe handlers registering in ConnectionRegistry    *)
(*   SpecTopics    ListTopics calls made while publishes create topics     *)
(*   SpecAck       acks in any order, with what the handler did observed   *)
(*   SpecKeys      handlers registering with keys of two topics and groups *)
(*   SpecReject    publishes that pass or fail the handler's checks        *)
(*   SpecBackoff   calls of reconnect_backoff                              *)
(*   SpecHandshake a client Subscription and the server's end of its stream *)
(*   SpecClient    the same, under fairness of the consumer and the server *)
(*   SpecBus       receivers of a NotificationBus and calls of notify      *)
(*   SpecAcc       calls on a BatchAccumulator in any order                *)
(*   SpecBatch     the writer's push/flush cycle on its accumulator        *)
(*   SpecPoll      a stream woken by its timer and by the notification bus *)
(*   SpecShutdown  publishes and a shutdown of the server, under fairness  *)
(*   SpecExit      subscribe handlers leaving by every exit path           *)
(*   SpecTakeover  handlers that register, deliver and exit, under fairness *)
(* Each specification leaves the other parts' variables at their initial   *)
(* values.                                                                 *)
(***************************************************************************)
EXTENDS Integers, Sequences, FiniteSets, TLC

(***************************************************************************)
(* Bounds of the model.                                                    *)
(***************************************************************************)
\* Width of the credit counter in the model. The program's counter is an
\* AtomicU32; the model keeps the wrap-around at a narrower word.
CreditBits == 3
\* Calls that the concurrent callers of a CreditBalance may begin in total.
MaxCreditOps == 3
\* Subscribe handlers of SpecRegistry.
NumHandlers == 3
\* Publish requests made over a run.
MaxPublishes == 3
\* BatchConfig.max_batch_size of the run (the program's default is 100).
MaxBatchSize == 2
\* Ungraceful process kills followed by a restart.
MaxCrashes == 1
\* Credit frames a subscription stream receives.
MaxCreditGrants == 2
\* batch_fetch_limit of the delivery loop.
BatchFetchLimit == 2
\* Subscriptions a consumer group opens after its first one.
MaxResumes == 1
\* Capacity of the NotificationBus ring (the program's default is 1024).
NotifyCapacity == 1
MaxBatchDelay == 2
MaxClock == 3
MaxPushes == 3
MaxNotifies == 3
MaxWindow == 3
MaxDeliveries == 4
MaxAttempt == 20

U32_MAX == 2^CreditBits - 1
\* u32 arithmetic that wraps around.
Wrap(n) == n % (U32_MAX + 1)
WrapSub(a, b) == (a + U32_MAX + 1 - b) % (U32_MAX + 1)
Min(a, b) == IF a <= b THEN a ELSE b

VARIABLES
    \* ---- CreditBalance (flow/credit.rs)
    credits,      \* the AtomicU32
    cpc,          \* per caller: "idle", "load", "cas", "panicked"
    cop,          \* per caller: the call in progress or last finished, and its number
    ccur,         \* per caller: the value read by the load of its CAS loop
    cret,         \* per caller: the value its last call returned
    cops,         \* calls begun so far
    ctotal,       \* what the calls added, took and found so far
    \* ---- ConnectionRegistry (service/registry.rs)
    active,       \* key -> handler whose cancel sender is stored, 0 if none
    mutex,        \* handler holding the registry mutex, 0 if free
    hpc,          \* per handler: its position
    hkey,         \* per handler: the key it subscribed with
    rx,           \* per handler: state of its cancel receiver
    \* ---- publish handlers (service/publish.rs)
    pstate,       \* per request: "new", "waiting", "ok", "err", "lost"
    ptopic,       \* per request: the topic it publishes to
    presp,        \* per request: the PublishResponse the client received
    pstatus,      \* per request: the status code the client received
    pvalid,       \* the last request validated: handler, request, result
    \* ---- writer thread and durable log (storage/)
    intake,       \* the writer's intake queue of publish commands
    items,        \* BatchAccumulator.items
    batchStart,   \* BatchAccumulator.batch_start.is_some()
    wpc,          \* the writer's position: "collect", "commit", "reply", "notify",
                  \*   or "dead" once its thread has panicked
    txn,          \* rows inserted by the open transaction
    txnOk,        \* whether the last commit succeeded
    txnErr,       \* the database error message of a failed commit
    wreply,       \* per request: what the writer sent on its reply channel
    cache,        \* the writer's cached max sequence per topic
    log,          \* committed rows of the messages table
    topicsTbl,    \* committed rows of the topics table
    bus,          \* notifications sent on the NotificationBus
    lastBatch,    \* the commands the accumulator held at the last flush
    notified,     \* the notify calls made for the batch last flushed, in order
    crashes,      \* process kills so far
    \* ---- subscription stream (service/subscribe.rs)
    sstate,       \* "awaiting_init", "serving", "terminated"
    sstatus,      \* the status the stream ended with
    stopic,       \* the topic of the stream
    scursor,      \* delivery_cursor
    scredits,     \* the stream's CreditBalance
    sgrants,      \* Credit frames received
    sframe,       \* the amount of the last Credit frame received
    sdelivered,   \* sequences of the Delivery frames sent, in order
    sgranted,     \* credits the stream's balance was granted in total
    sread,        \* whether the last round of the delivery loop read the log
    \* ---- cursors of the consumer group (cursors table, the group's client)
    cursorsTbl,   \* per topic: last_seq of the group's cursor row, None if no row
    sprev,        \* sequences the group's earlier streams delivered
    sresumes,     \* subscriptions the group opened after its first one
    \* ---- ListTopics (service/topics.rs)
    listed,       \* the last ListTopics call: its status, the names returned, and
                  \*   the topics table it read
    \* ---- subscription stream, AwaitingInit
    sfirst,       \* per stream: the first upstream frame, "closed" for a stream
                  \*   closed before any frame, "none" while none has arrived
    spos,         \* per stream: initial_position of its Init frame, "none" without
    sacked,       \* the last Ack frame observed: the sequence it resolved to, the
                  \*   last acknowledged sequence before it, whether an
                  \*   AdvanceCursor was submitted
    \* ---- subscribe handlers of the registry, their exits
    hexit,        \* per handler: the exit path it left its serving loop by
    hsent,        \* per handler: whether it has sent a Delivery
    \* ---- run_server (server.rs)
    srvpc,        \* "serving", "draining" once the shutdown signal is seen,
                  \*   "stopped" once serve_with_shutdown has returned,
                  \*   "shutdown_sent", "done"
    \* ---- the stream's receiver of the NotificationBus (flow/notify.rs)
    sring,        \* per stream: the notifications buffered for its receiver
    slagged,      \* per stream: whether its receiver has been overrun
    swoke,        \* per stream: what woke its handler last
    acc,          \* a BatchAccumulator: items, batch_start, config
    clock,        \* the monotonic clock read by Instant::now and elapsed
    bret,         \* the accumulator call made last and what it returned
    bcount,       \* number of items pushed so far
    nbus,         \* a NotificationBus: its receivers, what was sent, what notify returned
    cli,          \* a client Subscription, its upstream channel and the server's end
    bk            \* the last two calls of reconnect_backoff

creditVars == <<credits, cpc, cop, ccur, cret, cops, ctotal>>
registryVars == <<active, mutex, hpc, hkey, rx>>
publishVars == <<pstate, ptopic, presp, pstatus, pvalid>>
writerVars == <<intake, items, batchStart, wpc, txn, txnOk, txnErr, wreply, cache, log,
                topicsTbl, bus, lastBatch, notified, crashes>>
subVars == <<sstate, sstatus, stopic, scursor, scredits, sgrants, sframe, sdelivered,
             sgranted, sread>>
cursorVars == <<cursorsTbl, sprev, sresumes>>
openVars == <<sfirst, spos>>
exitVars == <<hexit, hsent>>
busVars == <<sring, slagged, swoke>>
accVars == <<acc, clock, bret, bcount>>
lateVars == <<nbus, cli, bk>>
extVars == <<listed, openVars, sacked, exitVars, srvpc, busVars, accVars, lateVars>>
brokerVars == <<publishVars, writerVars, subVars, cursorVars, extVars>>
vars == <<creditVars, registryVars, brokerVars>>

(***************************************************************************)
(* CreditBalance                                                           *)
(***************************************************************************)
CThreads == 1 .. 2
AddAmounts == {1, 2, U32_MAX}
ConsumeAmounts == {0, 1, 2, U32_MAX}
NoOp == [kind |-> "none", amount |-> 0, call |-> 0]
None == 0 - 1
\* The running totals of the calls on the balance: the amounts given to add,
\* the amounts try_consume_many returned, the try_consume calls that returned
\* true, the values reset returned, the compare_exchange calls that failed,
\* and whether the addition of an add overflowed.
NoTotals == [added |-> 0, many |-> 0, one |-> 0, reset |-> 0, failed |-> 0,
             overflowed |-> FALSE]

InitCredit ==
    /\ credits = 0
    /\ cpc = [t \in CThreads |-> "idle"]
    /\ cop = [t \in CThreads |-> NoOp]
    /\ ccur = [t \in CThreads |-> 0]
    /\ cret = [t \in CThreads |-> None]
    /\ cops = 0
    /\ ctotal = NoTotals

\* AtomicU32::fetch_add: the stored value wraps around at the word size.
\* compare_exchange(current, new): stores only when the word still holds current.
CasAlways(actual, expected) == TRUE
CasSucceeds(actual, expected) == actual = expected

FetchAddMutant(c, n) == WrapSub(c, n)
FetchAdd(c, n) == Wrap(c + n)

\* The "+ amount" of add() on the value fetch_add returned: u32 addition, which
\* wraps in a release build and panics in a debug build when it overflows.
AddOverflows(c, n) == c + n > U32_MAX

\* The new value try_consume_many's compare_exchange stores: current - min(current, amount).
ToConsumeMutant(current, amount) == amount
ToConsumeNoZeroCheck(current, amount) == IF current = 0 THEN amount ELSE Min(current, amount)
ToConsume(current, amount) == Min(current, amount)

\* CreditBalance::add(amount)
Add(t, n) ==
    /\ cpc[t] = "idle"
    /\ cops < MaxCreditOps
    /\ cops' = cops + 1
    /\ cop' = [cop EXCEPT ![t] = [kind |-> "add", amount |-> n, call |-> cops + 1]]
    /\ credits' = FetchAdd(credits, n)
    /\ ctotal' = [ctotal EXCEPT !.added = @ + n,
                                !.overflowed = @ \/ AddOverflows(credits, n)]
    /\ IF AddOverflows(credits, n)
         THEN \/ /\ cpc' = [cpc EXCEPT ![t] = "panicked"]
                 /\ cret' = [cret EXCEPT ![t] = None]
              \/ /\ cpc' = cpc
                 /\ cret' = [cret EXCEPT ![t] = Wrap(credits + n)]
         ELSE /\ cpc' = cpc
              /\ cret' = [cret EXCEPT ![t] = credits + n]
    /\ UNCHANGED ccur
    /\ UNCHANGED <<registryVars, brokerVars>>

\* CreditBalance::reset()
Reset(t) ==
    /\ cpc[t] = "idle"
    /\ cops < MaxCreditOps
    /\ cops' = cops + 1
    /\ cop' = [cop EXCEPT ![t] = [kind |-> "reset", amount |-> 0, call |-> cops + 1]]
    /\ cret' = [cret EXCEPT ![t] = credits]
    /\ credits' = 0
    /\ ctotal' = [ctotal EXCEPT !.reset = @ + credits]
    /\ UNCHANGED <<cpc, ccur>>
    /\ UNCHANGED <<registryVars, brokerVars>>

\* CreditBalance::available()
Available(t) ==
    /\ cpc[t] = "idle"
    /\ cops < MaxCreditOps
    /\ cops' = cops + 1
    /\ cop' = [cop EXCEPT ![t] = [kind |-> "available", amount |-> 0, call |-> cops + 1]]
    /\ cret' = [cret EXCEPT ![t] = credits]
    /\ UNCHANGED <<credits, cpc, ccur, ctotal>>
    /\ UNCHANGED <<registryVars, brokerVars>>

\* Entry of try_consume() (amount 1) and try_consume_many(amount).
ConsumeBegin(t, kind, n) ==
    /\ cpc[t] = "idle"
    /\ cops < MaxCreditOps
    /\ cops' = cops + 1
    /\ cop' = [cop EXCEPT ![t] = [kind |-> kind, amount |-> n, call |-> cops + 1]]
    /\ cpc' = [cpc EXCEPT ![t] = "load"]
    /\ cret' = [cret EXCEPT ![t] = None]
    /\ UNCHANGED <<credits, ccur, ctotal>>
    /\ UNCHANGED <<registryVars, brokerVars>>

\* The load at the top of the CAS loop, and the early return when it reads 0.
ConsumeLoad(t) ==
    /\ cpc[t] = "load"
    /\ ccur' = [ccur EXCEPT ![t] = credits]
    /\ IF credits = 0
         THEN /\ cpc' = [cpc EXCEPT ![t] = "idle"]
              /\ cret' = [cret EXCEPT ![t] = 0]
         ELSE /\ cpc' = [cpc EXCEPT ![t] = "cas"]
              /\ cret' = cret
    /\ UNCHANGED <<credits, cop, cops, ctotal>>
    /\ UNCHANGED <<registryVars, brokerVars>>

\* compare_exchange(current, current - to_consume): stores and returns on
\* success, goes round the loop again on failure.
ConsumeCas(t) ==
    /\ cpc[t] = "cas"
    /\ LET take == IF cop[t].kind = "try_consume" THEN 1
                   ELSE ToConsume(ccur[t], cop[t].amount)
       IN IF CasSucceeds(credits, ccur[t])
            THEN /\ credits' = WrapSub(ccur[t], take)
                 /\ cret' = [cret EXCEPT ![t] = take]
                 /\ cpc' = [cpc EXCEPT ![t] = "idle"]
                 /\ ctotal' = IF cop[t].kind = "try_consume"
                                THEN [ctotal EXCEPT !.one = @ + 1]
                                ELSE [ctotal EXCEPT !.many = @ + take]
            ELSE /\ cpc' = [cpc EXCEPT ![t] = "load"]
                 /\ ctotal' = [ctotal EXCEPT !.failed = @ + 1]
                 /\ UNCHANGED <<credits, cret>>
    /\ UNCHANGED <<cop, ccur, cops>>
    /\ UNCHANGED <<registryVars, brokerVars>>

NextCredit ==
    \/ \E t \in CThreads, n \in AddAmounts : Add(t, n)
    \/ \E t \in CThreads : Reset(t)
    \/ \E t \in CThreads : Available(t)
    \/ \E t \in CThreads : ConsumeBegin(t, "try_consume", 1)
    \/ \E t \in CThreads, n \in ConsumeAmounts : ConsumeBegin(t, "try_consume_many", n)
    \/ \E t \in CThreads : ConsumeLoad(t)
    \/ \E t \in CThreads : ConsumeCas(t)

(***************************************************************************)
(* ConnectionRegistry                                                      *)
(***************************************************************************)
Handlers == 1 .. NumHandlers
\* (topic_id, consumer_group)
Keys == {<<1, "a">>, <<1, "b">>, <<2, "a">>}
NoKey == <<0, "">>

InitRegistry ==
    /\ active = [k \in Keys |-> 0]
    /\ mutex = 0
    /\ hpc = [h \in Handlers |-> "idle"]
    /\ hkey = [h \in Handlers |-> NoKey]
    /\ rx = [h \in Handlers |-> "none"]

\* self.active.lock(): the mutex is taken only when it is free.
LockFree(h) == mutex = 0

\* oneshot::Sender::send(()) on the displaced sender: the receiver resolves Ok
\* when it is still alive and waiting; the error when it is gone is ignored.
SendCancelMutant(r) == r
SendCancel(r) == IF r = "pending" THEN "fired" ELSE r

\* Dropping a sender without sending: a waiting receiver resolves with an error.
DropSender(r) == IF r = "pending" THEN "closed" ELSE r

\* register(): oneshot::channel() and the wait for the mutex.
RegisterBegin(h, k) ==
    /\ hpc[h] = "idle"
    /\ hkey' = [hkey EXCEPT ![h] = k]
    /\ rx' = [rx EXCEPT ![h] = "pending"]
    /\ hpc' = [hpc EXCEPT ![h] = "reg_lock"]
    /\ UNCHANGED <<active, mutex>>
    /\ UNCHANGED <<creditVars, brokerVars>>

RegisterLock(h) ==
    /\ hpc[h] = "reg_lock"
    /\ LockFree(h)
    /\ mutex' = h
    /\ hpc' = [hpc EXCEPT ![h] = "reg_remove"]
    /\ UNCHANGED <<active, hkey, rx>>
    /\ UNCHANGED <<creditVars, brokerVars>>

\* register(): active.remove(&key) and the send on the displaced sender.
RegisterRemove(h) ==
    /\ hpc[h] = "reg_remove"
    /\ LET old == active[hkey[h]]
       IN /\ active' = [active EXCEPT ![hkey[h]] = 0]
          /\ rx' = IF old # 0 THEN [rx EXCEPT ![old] = SendCancel(rx[old])] ELSE rx
    /\ hpc' = [hpc EXCEPT ![h] = "reg_insert"]
    /\ UNCHANGED <<mutex, hkey>>
    /\ UNCHANGED <<creditVars, brokerVars>>

\* register(): active.insert(key, tx), which drops a value it replaces, and the
\* release of the mutex on return.
RegisterInsert(h) ==
    /\ hpc[h] = "reg_insert"
    /\ LET old == active[hkey[h]]
       IN /\ active' = [active EXCEPT ![hkey[h]] = h]
          /\ rx' = IF old # 0 THEN [rx EXCEPT ![old] = DropSender(rx[old])] ELSE rx
    /\ mutex' = 0
    /\ hpc' = [hpc EXCEPT ![h] = "serving"]
    /\ UNCHANGED hkey
    /\ UNCHANGED <<creditVars, brokerVars>>

\* The ways a subscribe handler leaves its serving loop, and the status its
\* stream closes with.
ExitPaths == {"client_close", "takeover", "internal_error", "credit_overflow", "shutdown"}
ExitStatus(reason) ==
    CASE reason = "client_close" -> "OK"
      [] reason = "takeover" -> "Aborted"
      [] reason = "internal_error" -> "Internal"
      [] reason = "credit_overflow" -> "InvalidArgument"
      [] reason = "shutdown" -> "Unavailable"

\* The subscribe handler leaves its serving loop by one of its exit paths, the
\* takeover path after its cancel receiver resolved with the signal; on every
\* path it goes on to unregister.
HandlerExit(h, reason) ==
    /\ hpc[h] = "serving"
    /\ reason = "takeover" => rx[h] = "fired"
    /\ hexit' = [hexit EXCEPT ![h] = reason]
    /\ hpc' = [hpc EXCEPT ![h] = "unreg_lock"]
    /\ UNCHANGED <<active, mutex, hkey, rx, hsent>>
    /\ UNCHANGED <<creditVars, publishVars, writerVars, subVars, cursorVars, listed,
                   openVars, sacked, srvpc, busVars, accVars, lateVars>>

\* The subscribe handler, in its serving loop, sends a Delivery downstream.
HandlerDeliver(h) ==
    /\ hpc[h] = "serving"
    /\ hsent' = [hsent EXCEPT ![h] = TRUE]
    /\ UNCHANGED <<registryVars, hexit>>
    /\ UNCHANGED <<creditVars, publishVars, writerVars, subVars, cursorVars, listed,
                   openVars, sacked, srvpc, busVars, accVars, lateVars>>

UnregisterLock(h) ==
    /\ hpc[h] = "unreg_lock"
    /\ LockFree(h)
    /\ mutex' = h
    /\ hpc' = [hpc EXCEPT ![h] = "unreg_remove"]
    /\ UNCHANGED <<active, hkey, rx>>
    /\ UNCHANGED <<creditVars, brokerVars>>

\* The entry unregister(key) removes: whatever the map holds for the key.
UnregisterRemovesNone(h, k) == FALSE
UnregisterRemoves(h, k) == active[k] # 0

\* unregister(): active.remove(key), dropping the removed sender, and the
\* release of the mutex. The handler's own receiver is dropped on return.
UnregisterRemove(h) ==
    /\ hpc[h] = "unreg_remove"
    /\ LET old == active[hkey[h]]
       IN IF UnregisterRemoves(h, hkey[h])
            THEN /\ active' = [active EXCEPT ![hkey[h]] = 0]
                 /\ rx' = [rx EXCEPT ![old] = DropSender(rx[old]), ![h] = "dropped"]
            ELSE /\ active' = active
                 /\ rx' = [rx EXCEPT ![h] = "dropped"]
    /\ mutex' = 0
    /\ hpc' = [hpc EXCEPT ![h] = "done"]
    /\ UNCHANGED hkey
    /\ UNCHANGED <<creditVars, brokerVars>>

\* register(key) as one step, for a handler that is not followed through the
\* mutex: the displaced sender is fired and the caller's own is stored.
RegisterNow(h, k) ==
    /\ active' = [active EXCEPT ![k] = h]
    /\ rx' = [x \in Handlers |->
                IF x = h THEN "pending"
                ELSE IF active[k] = x THEN SendCancel(rx[x])
                ELSE rx[x]]
    /\ hkey' = [hkey EXCEPT ![h] = k]
    /\ UNCHANGED <<mutex, hpc>>

\* unregister(&key) as one step, on an exit path of handler h, which then drops
\* its receiver.
UnregisterNow(h) ==
    /\ LET old == active[hkey[h]]
       IN IF UnregisterRemoves(h, hkey[h])
            THEN /\ active' = [active EXCEPT ![hkey[h]] = 0]
                 /\ rx' = [rx EXCEPT ![old] = DropSender(rx[old]), ![h] = "dropped"]
            ELSE /\ active' = active
                 /\ rx' = [rx EXCEPT ![h] = "dropped"]
    /\ UNCHANGED <<mutex, hpc, hkey>>

\* Handlers subscribing to one topic in two groups, each leaving because its
\* client closed the stream or because it was taken over.
NextRegistry ==
    \/ \E h \in Handlers, k \in {<<1, "a">>, <<1, "b">>} : RegisterBegin(h, k)
    \/ \E h \in Handlers : RegisterLock(h)
    \/ \E h \in Handlers : RegisterRemove(h)
    \/ \E h \in Handlers : RegisterInsert(h)
    \/ \E h \in Handlers, reason \in {"client_close", "takeover"} : HandlerExit(h, reason)
    \/ \E h \in Handlers : UnregisterLock(h)
    \/ \E h \in Handlers : UnregisterRemove(h)

\* Handlers subscribing with keys that differ in the topic, in the group or in
\* both, each leaving when its client closes the stream.
NextKeys ==
    \/ \E h \in Handlers, k \in Keys : RegisterBegin(h, k)
    \/ \E h \in Handlers : RegisterLock(h)
    \/ \E h \in Handlers : RegisterRemove(h)
    \/ \E h \in Handlers : RegisterInsert(h)
    \/ \E h \in Handlers : HandlerExit(h, "client_close")
    \/ \E h \in Handlers : UnregisterLock(h)
    \/ \E h \in Handlers : UnregisterRemove(h)

\* Handlers subscribing with one key, each leaving by any of the exit paths.
NextExit ==
    \/ \E h \in Handlers : RegisterBegin(h, <<1, "a">>)
    \/ \E h \in Handlers : RegisterLock(h)
    \/ \E h \in Handlers : RegisterRemove(h)
    \/ \E h \in Handlers : RegisterInsert(h)
    \/ \E h \in Handlers, reason \in ExitPaths : HandlerExit(h, reason)
    \/ \E h \in Handlers : UnregisterLock(h)
    \/ \E h \in Handlers : UnregisterRemove(h)

\* Handlers that register, deliver and exit.
NextTakeover ==
    \/ NextRegistry
    \/ \E h \in Handlers : HandlerDeliver(h)

\* A call of the registry that has begun runs to its end, and a handler whose
\* cancel signal has fired observes it.
FairTakeover ==
    \A h \in Handlers :
        /\ WF_vars(RegisterLock(h))
        /\ WF_vars(RegisterRemove(h))
        /\ WF_vars(RegisterInsert(h))
        /\ WF_vars(HandlerExit(h, "takeover"))
        /\ WF_vars(UnregisterLock(h))
        /\ WF_vars(UnregisterRemove(h))

(***************************************************************************)
(* Publish handler, writer, durable log, subscription stream               *)
(***************************************************************************)
Reqs == 1 .. MaxPublishes
Topics == {"t1", "t2"}
Timestamps == {1, 2}
Subs == {1}
CreditGrants == {1, U32_MAX}
NoResp == [message_id |-> 0, sequence |-> 0, timestamp |-> 0]
NoMsg == {}
NoReply == [kind |-> "none", message_id |-> 0, sequence |-> 0, timestamp |-> 0,
            msg |-> NoMsg]
\* Database error messages, as the words they contain.
DbErrors == {{"database", "or", "disk", "is", "full"}, {"constraint", "failed"}}

\* ---- input validation of handle_publish
\* The longest topic name accepted, in bytes (String::len).
MaxTopicLen == 255
MAX_PAYLOAD_SIZE == 4 * 1024 * 1024
\* The two handle_publish of the repository: crates/sluice-server and the root
\* crate.
PublishHandlers == {"sluice-server", "sluice"}

\* A topic name, as the numbers of its characters by kind: characters of
\* [A-Za-z0-9._-], other one-byte characters (such as '/'), and characters
\* encoded in two bytes (such as an accented letter).
TopicInputs ==
    [allowed : {0, 1, 2, MaxTopicLen - 1, MaxTopicLen, MaxTopicLen + 1},
     other : {0, 1},
     wide : {0, 1, 128}]
PayloadSizes == {0, MAX_PAYLOAD_SIZE - 1, MAX_PAYLOAD_SIZE, MAX_PAYLOAD_SIZE + 1}
\* The attribute map: empty, or not empty with serde_json::to_string
\* returning Ok or Err.
AttributeInputs == {"empty", "serializable", "unserializable"}
Requests == [topic : TopicInputs, payload : PayloadSizes, attributes : AttributeInputs]

\* String::len(): the length in bytes.
TopicLen(topic) == topic.allowed + topic.other + 2 * topic.wide
\* The number of characters.
TopicChars(topic) == topic.allowed + topic.other + topic.wide
\* chars().all(|c| c.is_ascii_alphanumeric() || c == '-' || c == '_' || c == '.')
AllAllowed(topic) == topic.other = 0 /\ topic.wide = 0

Rejected(status, check) == [status |-> status, check |-> check]
Passed == [status |-> "OK", check |-> "none"]
NoRequest == [topic |-> [allowed |-> 0, other |-> 0, wide |-> 0], payload |-> 0,
              attributes |-> "empty"]
\* The accumulator with its configuration and the clock. batch_start is the
\* clock value read at the first push of the batch, NoInstant for None.
NoInstant == 0 - 1
NoAccumulator ==
    [made |-> FALSE, items |-> <<>>, batch_start |-> NoInstant, max_batch_size |-> 0,
     max_batch_delay |-> 0]
NoAccCall ==
    [op |-> "none", at |-> 0, ready |-> FALSE, until |-> NoInstant, drained |-> <<>>]
\* A bus with no receiver and nothing sent. A receiver holds its unread
\* notifications (ring), the marker that it was overrun (lagged), and, to follow
\* what it observes, the number of notifications sent before it subscribed
\* (from), those it received (got) and whether it was ever overrun (overrun).
Receivers == 1 .. 2
NoReceiver ==
    [state |-> "none", ring |-> <<>>, lagged |-> FALSE, from |-> 0, got |-> <<>>,
     overrun |-> FALSE]
NoBus == [rx |-> [r \in Receivers |-> NoReceiver], sent |-> <<>>, ret |-> 0]
\* No client subscription started, and no call of reconnect_backoff made.
NoSubscription ==
    [pc |-> "new", credits_window |-> 0, remaining_credits |-> 0, auto_ack |-> FALSE,
     up |-> <<>>, sent |-> <<>>, taken |-> <<>>, down |-> 0, balance |-> 0,
     delivered |-> 0, received |-> 0]
NoBackoff == [attempt |-> None, delay |-> None, prev_attempt |-> None, prev_delay |-> None]
NoAck == [seq |-> 0, prior |-> 0, submitted |-> FALSE]
NoListing == [status |-> "none", names |-> <<>>, of |-> {}]
NoCall == [handler |-> "none", req |-> NoRequest, res |-> Rejected("none", "none")]

\* The checks of handle_publish of crates/sluice-server before the message id
\* is generated, each returning its status.
ValidateMutant(req) ==
    IF TopicLen(req.topic) = 0 THEN Rejected("InvalidArgument", "topic_empty")
    ELSE IF TopicLen(req.topic) > MaxTopicLen THEN Rejected("InvalidArgument", "topic_length")
    ELSE IF req.payload > MAX_PAYLOAD_SIZE THEN Rejected("ResourceExhausted", "payload_size")
    ELSE IF ~AllAllowed(req.topic) THEN Rejected("InvalidArgument", "topic_chars")
    ELSE IF req.attributes = "unserializable" THEN Rejected("InvalidArgument", "attributes")
    ELSE Passed
Validate(req) ==
    IF TopicLen(req.topic) = 0 THEN Rejected("InvalidArgument", "topic_empty")
    ELSE IF TopicLen(req.topic) > MaxTopicLen THEN Rejected("InvalidArgument", "topic_length")
    ELSE IF ~AllAllowed(req.topic) THEN Rejected("InvalidArgument", "topic_chars")
    ELSE IF req.payload > MAX_PAYLOAD_SIZE THEN Rejected("ResourceExhausted", "payload_size")
    ELSE IF req.attributes = "unserializable" THEN Rejected("InvalidArgument", "attributes")
    ELSE Passed

\* The checks of handle_publish of the root crate: there is no check of the
\* topic's characters.
ValidateRootCrate(req) ==
    IF TopicLen(req.topic) = 0 THEN Rejected("InvalidArgument", "topic_empty")
    ELSE IF TopicLen(req.topic) > MaxTopicLen THEN Rejected("InvalidArgument", "topic_length")
    ELSE IF req.payload > MAX_PAYLOAD_SIZE THEN Rejected("ResourceExhausted", "payload_size")
    ELSE IF req.attributes = "unserializable" THEN Rejected("InvalidArgument", "attributes")
    ELSE Passed

InitBroker ==
    /\ pstate = [r \in Reqs |-> "new"]
    /\ ptopic = [r \in Reqs |-> ""]
    /\ presp = [r \in Reqs |-> NoResp]
    /\ pstatus = [r \in Reqs |-> "none"]
    /\ pvalid = NoCall
    /\ intake = <<>>
    /\ items = <<>>
    /\ batchStart = FALSE
    /\ wpc = "collect"
    /\ txn = <<>>
    /\ txnOk = FALSE
    /\ txnErr = NoMsg
    /\ wreply = [r \in Reqs |-> NoReply]
    /\ cache = [t \in Topics |-> None]
    /\ log = {}
    /\ topicsTbl = {}
    /\ bus = {}
    /\ lastBatch = <<>>
    /\ notified = <<>>
    /\ crashes = 0
    /\ sstate = [s \in Subs |-> "awaiting_init"]
    /\ sstatus = [s \in Subs |-> "none"]
    /\ stopic = [s \in Subs |-> ""]
    /\ scursor = [s \in Subs |-> 0]
    /\ scredits = [s \in Subs |-> 0]
    /\ sgrants = [s \in Subs |-> 0]
    /\ sframe = [s \in Subs |-> 0]
    /\ sdelivered = [s \in Subs |-> <<>>]
    /\ sgranted = [s \in Subs |-> 0]
    /\ sread = [s \in Subs |-> FALSE]
    /\ cursorsTbl = [t \in Topics |-> None]
    /\ sprev = [s \in Subs |-> {}]
    /\ sresumes = 0
    /\ listed = NoListing
    /\ sfirst = [s \in Subs |-> "none"]
    /\ spos = [s \in Subs |-> "none"]
    /\ sacked = NoAck
    /\ hexit = [h \in Handlers |-> "none"]
    /\ hsent = [h \in Handlers |-> FALSE]
    /\ srvpc = "serving"
    /\ sring = [s \in Subs |-> <<>>]
    /\ slagged = [s \in Subs |-> FALSE]
    /\ swoke = [s \in Subs |-> "none"]
    /\ acc = NoAccumulator
    /\ clock = 0
    /\ bret = NoAccCall
    /\ bcount = 0
    /\ nbus = NoBus
    /\ cli = NoSubscription
    /\ bk = NoBackoff

SeqsOf(rows, t) == {m.sequence : m \in {x \in rows : x.topic = t}}
MaxOf(S) == IF S = {} THEN 0 ELSE CHOOSE x \in S : \A y \in S : y <= x
\* SELECT max(sequence) FROM messages WHERE topic_id = t (0 for an empty topic)
MaxSeq(rows, t) == MaxOf(SeqsOf(rows, t))

\* ---- BatchAccumulator (storage/batch.rs)
PushMutant(its, x) == <<x>> \o its
Push(its, x) == Append(its, x)

IsReady(its, elapsed) ==
    /\ Len(its) > 0
    /\ \/ Len(its) >= MaxBatchSize
       \/ elapsed

DrainMutant(its) == IF Len(its) > 1 THEN SubSeq(its, 1, Len(its) - 1) ELSE its
Drain(its) == its


\* BatchAccumulator::new
AccNewWith(size, delay) ==
    [made |-> TRUE, items |-> <<>>, batch_start |-> NoInstant, max_batch_size |-> size,
     max_batch_delay |-> delay]

\* Instant::elapsed of batch_start, read at time now
Elapsed(a, now) == now - a.batch_start

\* BatchAccumulator::is_ready, its clock read at time now
AccIsReadySizeOnly(a, now) == Len(a.items) >= a.max_batch_size
AccIsReady(a, now) ==
    IF Len(a.items) = 0
      THEN FALSE
      ELSE IF Len(a.items) >= a.max_batch_size
             THEN TRUE
             ELSE IF a.batch_start # NoInstant /\ Elapsed(a, now) >= a.max_batch_delay
                    THEN TRUE
                    ELSE FALSE

\* Duration::saturating_sub
SaturatingSub(d, e) == IF e >= d THEN 0 ELSE d - e

\* BatchAccumulator::time_until_ready: is_ready reads the clock at now, the
\* later elapsed() at later. NoInstant stands for None.
AccTimeUntilReady(a, now, later) ==
    IF Len(a.items) = 0
      THEN NoInstant
      ELSE IF AccIsReady(a, now)
             THEN 0
             ELSE IF a.batch_start = NoInstant
                    THEN NoInstant
                    ELSE SaturatingSub(a.max_batch_delay, Elapsed(a, later))

\* The accumulator after BatchAccumulator::push, Instant::now read at now
AccPushed(a, x, now) ==
    [a EXCEPT !.batch_start = IF @ = NoInstant THEN now ELSE @,
              !.items = Push(@, x)]

\* The accumulator after BatchAccumulator::drain
AccDrainedKeepsStart(a) == [a EXCEPT !.items = <<>>]
AccDrained(a) == [a EXCEPT !.batch_start = NoInstant, !.items = <<>>]

\* An accumulator is made for a configuration.
AccNew(size, delay) ==
    /\ ~acc.made
    /\ acc' = AccNewWith(size, delay)
    /\ UNCHANGED <<clock, bret, bcount>>
    /\ UNCHANGED <<publishVars, writerVars, subVars, creditVars, registryVars, cursorVars,
                   listed, openVars, sacked, exitVars, srvpc, busVars, lateVars>>

\* Time passes.
ClockTick ==
    /\ clock < MaxClock
    /\ clock' = clock + 1
    /\ UNCHANGED <<acc, bret, bcount>>
    /\ UNCHANGED <<publishVars, writerVars, subVars, creditVars, registryVars, cursorVars,
                   listed, openVars, sacked, exitVars, srvpc, busVars, lateVars>>

\* The clock reads of one call: time may pass between two of them.
Later == {t \in {clock, clock + 1} : t <= MaxClock}

\* push(item): batch_start is set from the clock, the item appended, and
\* is_ready, which reads the clock again, gives the value returned.
AccPush ==
    /\ acc.made
    /\ bcount < MaxPushes
    /\ \E later \in Later :
          LET a == AccPushed(acc, bcount + 1, clock)
          IN /\ acc' = a
             /\ bret' = [NoAccCall EXCEPT !.op = "push", !.at = later,
                                         !.ready = AccIsReady(a, later)]
             /\ clock' = later
    /\ bcount' = bcount + 1
    /\ UNCHANGED <<publishVars, writerVars, subVars, creditVars, registryVars, cursorVars,
                   listed, openVars, sacked, exitVars, srvpc, busVars, lateVars>>

\* is_ready()
AccCheck ==
    /\ acc.made
    /\ bret' = [NoAccCall EXCEPT !.op = "is_ready", !.at = clock,
                                   !.ready = AccIsReady(acc, clock)]
    /\ UNCHANGED <<acc, clock, bcount>>
    /\ UNCHANGED <<publishVars, writerVars, subVars, creditVars, registryVars, cursorVars,
                   listed, openVars, sacked, exitVars, srvpc, busVars, lateVars>>

\* time_until_ready()
AccWait ==
    /\ acc.made
    /\ \E later \in Later :
          /\ bret' = [NoAccCall EXCEPT !.op = "time_until_ready", !.at = later,
                                         !.until = AccTimeUntilReady(acc, clock, later)]
          /\ clock' = later
    /\ UNCHANGED <<acc, bcount>>
    /\ UNCHANGED <<publishVars, writerVars, subVars, creditVars, registryVars, cursorVars,
                   listed, openVars, sacked, exitVars, srvpc, busVars, lateVars>>

\* drain()
AccDrain ==
    /\ acc.made
    /\ acc' = AccDrained(acc)
    /\ bret' = [NoAccCall EXCEPT !.op = "drain", !.at = clock,
                                   !.drained = Drain(acc.items)]
    /\ UNCHANGED <<clock, bcount>>
    /\ UNCHANGED <<publishVars, writerVars, subVars, creditVars, registryVars, cursorVars,
                   listed, openVars, sacked, exitVars, srvpc, busVars, lateVars>>

\* The writer's cycle on its accumulator: a command received is pushed while
\* the batch is not ready, and a ready batch is drained into one transaction.
BatchPush ==
    /\ ~AccIsReady(acc, clock)
    /\ AccPush

BatchFlush ==
    /\ AccIsReady(acc, clock)
    /\ AccDrain

\* ---- handle_publish (service/publish.rs)
\* The status a writer reply is surfaced as.
ReplyStatusMutant(reply) == "OK"
ReplyStatusAllInternal(reply) == IF reply.kind = "ok" THEN "OK" ELSE "Internal"
ReplyStatus(reply) ==
    CASE reply.kind = "ok" -> "OK"
      [] reply.kind = "channel_closed" -> "Unavailable"
      [] reply.kind = "database" /\ ("disk" \in reply.msg \/ "full" \in reply.msg)
           -> "Unavailable"
      [] reply.kind = "database" -> "Internal"
      [] reply.kind = "thread_panic" -> "Internal"

\* The PublishResponse built from the writer's result.
PublishResponseSwapped(result) ==
    [message_id |-> result.message_id, sequence |-> result.timestamp,
     timestamp |-> result.sequence]
PublishResponseMutant(result) ==
    [message_id |-> result.message_id, sequence |-> result.sequence + 1,
     timestamp |-> result.timestamp]
PublishResponse(result) ==
    [message_id |-> result.message_id, sequence |-> result.sequence,
     timestamp |-> result.timestamp]

\* handle_publish of handler h up to the end of its validation, on request req.
PublishValidate(h, req) ==
    /\ pvalid' = [handler |-> h, req |-> req,
                  res |-> IF h = "sluice-server" THEN Validate(req)
                          ELSE ValidateRootCrate(req)]
    /\ UNCHANGED <<pstate, ptopic, presp, pstatus, writerVars, subVars>>
    /\ UNCHANGED <<creditVars, registryVars, cursorVars, extVars>>

\* handle_publish up to the await on the writer: the request passed validation,
\* a fresh message id is generated (the request's own number), and the command
\* is placed on the intake queue. When the writer is gone the intake is closed
\* and the submission comes back at once as ChannelClosed.
PublishSubmit(r, t) ==
    /\ srvpc = "serving"
    /\ pstate[r] = "new"
    /\ \A q \in Reqs : q < r => pstate[q] # "new"
    /\ ptopic' = [ptopic EXCEPT ![r] = t]
    /\ pstate' = [pstate EXCEPT ![r] = "waiting"]
    /\ IF wpc \in {"dead", "exited"}
         THEN /\ wreply' = [wreply EXCEPT ![r] = [NoReply EXCEPT !.kind = "channel_closed"]]
              /\ intake' = intake
         ELSE /\ intake' = Append(intake, r)
              /\ wreply' = wreply
    /\ UNCHANGED <<presp, pstatus, pvalid, items, batchStart, wpc, txn, txnOk, txnErr, cache,
                   log, topicsTbl, bus, lastBatch, notified, crashes, subVars>>
    /\ UNCHANGED <<creditVars, registryVars, cursorVars, extVars>>

\* Whether handle_publish goes on to the writer after its checks.
SubmitsAlways(res) == TRUE
Submits(res) == res = Passed

\* handle_publish of crates/sluice-server up to the await on the writer, on
\* request r that carries topic name t and has the lengths and attributes of
\* req: the checks return the RPC's error at once, and only a request that
\* passed them is given a message id and placed on the intake.
PublishHandle(r, t, req) ==
    /\ srvpc = "serving"
    /\ pstate[r] = "new"
    /\ \A q \in Reqs : q < r => pstate[q] # "new"
    /\ pvalid' = [handler |-> "sluice-server", req |-> req, res |-> Validate(req)]
    /\ ptopic' = [ptopic EXCEPT ![r] = t]
    /\ IF Submits(Validate(req))
         THEN /\ pstate' = [pstate EXCEPT ![r] = "waiting"]
              /\ pstatus' = pstatus
              /\ IF wpc \in {"dead", "exited"}
                   THEN /\ wreply' = [wreply EXCEPT
                                        ![r] = [NoReply EXCEPT !.kind = "channel_closed"]]
                        /\ intake' = intake
                   ELSE /\ intake' = Append(intake, r)
                        /\ wreply' = wreply
         ELSE /\ pstate' = [pstate EXCEPT ![r] = "err"]
              /\ pstatus' = [pstatus EXCEPT ![r] = Validate(req).status]
              /\ UNCHANGED <<intake, wreply>>
    /\ UNCHANGED <<presp, items, batchStart, wpc, txn, txnOk, txnErr, cache,
                   log, topicsTbl, bus, lastBatch, notified, crashes, subVars>>
    /\ UNCHANGED <<creditVars, registryVars, cursorVars, extVars>>

\* handle_publish after the await: the writer's reply becomes the RPC's result.
PublishReturn(r) ==
    /\ pstate[r] = "waiting"
    /\ wreply[r] # NoReply
    /\ pstatus' = [pstatus EXCEPT ![r] = ReplyStatus(wreply[r])]
    /\ IF ReplyStatus(wreply[r]) = "OK"
         THEN /\ presp' = [presp EXCEPT ![r] = PublishResponse(wreply[r])]
              /\ pstate' = [pstate EXCEPT ![r] = "ok"]
         ELSE /\ presp' = presp
              /\ pstate' = [pstate EXCEPT ![r] = "err"]
    /\ UNCHANGED <<ptopic, pvalid, writerVars, subVars>>
    /\ UNCHANGED <<creditVars, registryVars, cursorVars, extVars>>

\* ---- writer thread (storage/writer.rs)
\* WriteCmd::Shutdown on the intake queue, where a publish command is the number
\* of its request.
ShutdownCmd == 0

\* The writer takes the next command off its intake into the accumulator.
WriterCollect ==
    /\ wpc = "collect"
    /\ intake # <<>>
    /\ Head(intake) # ShutdownCmd
    /\ ~IsReady(items, FALSE)
    /\ items' = Push(items, Head(intake))
    /\ batchStart' = TRUE
    /\ intake' = Tail(intake)
    /\ UNCHANGED <<publishVars, wpc, txn, txnOk, txnErr, wreply, cache, log, topicsTbl, bus,
                   lastBatch, notified, crashes, subVars>>
    /\ UNCHANGED <<creditVars, registryVars, cursorVars, extVars>>

\* The sequence given to the next row of a topic whose cached maximum is m.
NextSeq(m) == m + 1

\* Rows and cache after inserting commands i.. of the batch inside the
\* transaction, at time ts: the topic's maximum is looked up when it is not
\* cached.
RECURSIVE AssignFrom(_, _, _, _)
AssignFrom(i, batch, c, ts) ==
    IF i > Len(batch)
      THEN [rows |-> <<>>, cache |-> c]
      ELSE LET r == batch[i]
               t == ptopic[r]
               base == IF c[t] = None THEN MaxSeq(log, t) ELSE c[t]
               row == [message_id |-> r, topic |-> t, sequence |-> NextSeq(base),
                       timestamp |-> ts]
               rest == AssignFrom(i + 1, batch, [c EXCEPT ![t] = row.sequence], ts)
           IN [rows |-> <<row>> \o rest.rows, cache |-> rest.cache]

\* A ready batch is drained and inserted within one immediate transaction, at
\* time ts.
WriterFlush(ts) ==
    /\ wpc = "collect"
    /\ \E elapsed \in BOOLEAN : IsReady(items, elapsed)
    /\ LET batch == Drain(items)
           a == AssignFrom(1, batch, cache, ts)
       IN /\ txn' = a.rows
          /\ cache' = a.cache
    /\ lastBatch' = items
    /\ notified' = <<>>
    /\ items' = <<>>
    /\ batchStart' = FALSE
    /\ wpc' = "commit"
    /\ UNCHANGED <<publishVars, intake, txnOk, txnErr, wreply, log, topicsTbl, bus, crashes,
                   subVars>>
    /\ UNCHANGED <<creditVars, registryVars, cursorVars, extVars>>

RowSet(rows) == {rows[i] : i \in 1 .. Len(rows)}
TopicsIn(rows) == {m.topic : m \in RowSet(rows)}
\* The primary key (topic_id, sequence) and the unique message_id admit the rows.
Insertable(rows) ==
    \A m \in RowSet(rows) : \A x \in log :
        /\ x.message_id # m.message_id
        /\ ~(x.topic = m.topic /\ x.sequence = m.sequence)

\* COMMIT succeeds: every row of the transaction becomes durable.
WriterCommit ==
    /\ wpc = "commit"
    /\ Insertable(txn)
    /\ log' = log \cup RowSet(txn)
    /\ topicsTbl' = topicsTbl \cup TopicsIn(txn)
    /\ txnOk' = TRUE
    /\ wpc' = "reply"
    /\ UNCHANGED <<publishVars, intake, items, batchStart, txn, txnErr, wreply, cache,
                   bus, lastBatch, notified, crashes, subVars>>
    /\ UNCHANGED <<creditVars, registryVars, cursorVars, extVars>>

\* The cache of maxima with the entries of the topics of a failed batch
\* invalidated.
InvalidateNone(c, rows) == c
Invalidate(c, rows) == [t \in Topics |-> IF t \in TopicsIn(rows) THEN None ELSE c[t]]

\* The transaction fails: nothing becomes durable and the cached maxima of the
\* batch's topics are invalidated.
WriterCommitFail ==
    /\ wpc = "commit"
    /\ txnOk' = FALSE
    /\ \E msg \in DbErrors : txnErr' = msg
    /\ cache' = Invalidate(cache, txn)
    /\ wpc' = "reply"
    /\ UNCHANGED <<publishVars, intake, items, batchStart, txn, wreply, log, topicsTbl,
                   bus, lastBatch, notified, crashes, subVars>>
    /\ UNCHANGED <<creditVars, registryVars, cursorVars, extVars>>

\* The writer answers every producer of the batch.
WriterReply ==
    /\ wpc = "reply"
    /\ wreply' = [r \in Reqs |->
                    IF \E m \in RowSet(txn) : m.message_id = r
                      THEN LET m == CHOOSE x \in RowSet(txn) : x.message_id = r
                           IN IF txnOk
                                THEN [kind |-> "ok", message_id |-> m.message_id,
                                      sequence |-> m.sequence, timestamp |-> m.timestamp,
                                      msg |-> NoMsg]
                                ELSE [NoReply EXCEPT !.kind = "database", !.msg = txnErr]
                      ELSE wreply[r]]
    /\ wpc' = IF txnOk THEN "notify" ELSE "collect"
    /\ txn' = IF txnOk THEN txn ELSE <<>>
    /\ txnErr' = NoMsg
    /\ UNCHANGED <<publishVars, intake, items, batchStart, txnOk, cache, log, topicsTbl,
                   bus, lastBatch, notified, crashes, subVars>>
    /\ UNCHANGED <<creditVars, registryVars, cursorVars, extVars>>

\* The writer thread panics: the open transaction is rolled back, the intake is
\* closed, and every producer still waiting for its reply finds its reply
\* channel dropped (ThreadPanic).
WriterPanic ==
    /\ wpc # "dead"
    /\ wpc' = "dead"
    /\ wreply' = [r \in Reqs |->
                    IF pstate[r] = "waiting" /\ wreply[r] = NoReply
                      THEN [NoReply EXCEPT !.kind = "thread_panic"]
                      ELSE wreply[r]]
    /\ intake' = <<>>
    /\ items' = <<>>
    /\ batchStart' = FALSE
    /\ txn' = <<>>
    /\ txnErr' = NoMsg
    /\ UNCHANGED <<publishVars, txnOk, cache, log, topicsTbl, bus, lastBatch, notified,
                   crashes, subVars>>
    /\ UNCHANGED <<creditVars, registryVars, cursorVars, extVars>>

\* Whether the writer, with Shutdown at the head of its intake, may exit: the
\* commands it took before are committed and answered.
ExitsOnShutdownAtOnce(its) == TRUE
ExitsOnShutdown(its) == its = <<>>

\* The writer takes Shutdown off its intake, answers it and exits.
WriterShutdown ==
    /\ wpc = "collect"
    /\ intake # <<>>
    /\ Head(intake) = ShutdownCmd
    /\ ExitsOnShutdown(items)
    /\ intake' = Tail(intake)
    /\ items' = <<>>
    /\ batchStart' = FALSE
    /\ wpc' = "exited"
    /\ UNCHANGED <<publishVars, txn, txnOk, txnErr, wreply, cache, log, topicsTbl, bus,
                   lastBatch, notified, crashes, subVars>>
    /\ UNCHANGED <<creditVars, registryVars, cursorVars, extVars>>

\* NotificationBus::notify(topic_id, max_seq): the NewDataNotification sent.
NotifyMutant(topic_id, max_seq) == <<topic_id, max_seq + 1>>
Notify(topic_id, max_seq) == <<topic_id, max_seq>>

\* The notify calls for a committed batch: one per distinct topic, in the order
\* the topics first appear in the batch, each with the topic's new maximum.
RECURSIVE NotificationsOf(_, _)
NotificationsOf(rows, seen) ==
    IF rows = <<>>
      THEN <<>>
      ELSE LET t == Head(rows).topic
           IN IF t \in seen
                THEN NotificationsOf(Tail(rows), seen)
                ELSE <<Notify(t, MaxSeq(RowSet(rows), t))>>
                       \o NotificationsOf(Tail(rows), seen \cup {t})

\* The writer makes the notify calls for the batch it committed.
NotifyCalls ==
    /\ wpc = "notify"
    /\ LET calls == NotificationsOf(txn, {})
       IN /\ notified' = calls
          /\ bus' = bus \cup {calls[i] : i \in 1 .. Len(calls)}
    /\ txn' = <<>>
    /\ wpc' = "collect"
    /\ UNCHANGED <<publishVars, intake, items, batchStart, txnOk, txnErr, wreply, cache,
                   log, topicsTbl, lastBatch, crashes, subVars>>
    /\ UNCHANGED <<creditVars, registryVars, cursorVars>>

\* The calls, the receivers of the bus left aside.
WriterNotify ==
    /\ NotifyCalls
    /\ UNCHANGED extVars

\* broadcast::Sender::send on a ring of NotifyCapacity slots, as one receiver
\* sees it: a value sent to a receiver that holds NotifyCapacity unread ones
\* overwrites the oldest, and the receiver is marked as lagged.
SendNone(ring, lagged, calls) == [ring |-> ring, lagged |-> lagged]
RECURSIVE SendAll(_, _, _)
SendAll(ring, lagged, calls) ==
    IF calls = <<>>
      THEN [ring |-> ring, lagged |-> lagged]
      ELSE IF Len(ring) >= NotifyCapacity
             THEN SendAll(Append(Tail(ring), Head(calls)), TRUE, Tail(calls))
             ELSE SendAll(Append(ring, Head(calls)), lagged, Tail(calls))

\* ---- reconnect_backoff (lazysluice/controller.rs)
BaseMs == 100
CapMs == 5000
MaxExp == 16
U64Bits == 64
\* The largest number of the model, standing for u64::MAX.
U64_MAX == 2147483647

\* 1u64.checked_shl(exp): None when exp is the word size or more.
CheckedShl1(exp) == IF exp < U64Bits THEN 2 ^ exp ELSE None
\* u64::saturating_mul
SaturatingMul(a, b) == IF b > U64_MAX \div a THEN U64_MAX ELSE a * b

ReconnectBackoffNoCap(attempt) == BaseMs * (2 ^ Min(attempt, MaxExp))
ReconnectBackoff(attempt) ==
    LET exp == Min(attempt, MaxExp)
        shl == CheckedShl1(exp)
        factor == IF shl = None THEN U64_MAX ELSE shl
        delay_ms == SaturatingMul(BaseMs, factor)
    IN Min(delay_ms, CapMs)

\* A call reconnect_backoff(attempt), the call before it remembered.
Backoff(attempt) ==
    /\ bk' = [attempt |-> attempt, delay |-> ReconnectBackoff(attempt),
              prev_attempt |-> bk.attempt, prev_delay |-> bk.delay]
    /\ UNCHANGED <<creditVars, registryVars, publishVars, writerVars, subVars, cursorVars,
                   listed, openVars, sacked, exitVars, srvpc, busVars, accVars, nbus, cli>>

\* ---- client Subscription (client/subscription.rs)
InitFrame == [kind |-> "Init", credits |-> 0]
AckFrameOf == [kind |-> "Ack", credits |-> 0]
CreditFrame(n) == [kind |-> "Credit", credits |-> n]

\* The frames Subscription::start sends on the upstream channel, in order.
StartFramesCreditFirst(w) == <<CreditFrame(w), InitFrame>>
StartFrames(w) == <<InitFrame, CreditFrame(w)>>

\* u32::saturating_sub
SaturatingSubU32(a, b) == IF b >= a THEN 0 ELSE a - b

\* The threshold of maybe_refill_credits below which it sends a grant.
RefillThreshold(w) == w \div 2

\* Subscription::start
CliStart(w, ack) ==
    /\ cli.pc = "new"
    /\ cli' = [cli EXCEPT !.pc = "next", !.credits_window = w, !.remaining_credits = w,
                          !.auto_ack = ack,
                          !.up = StartFrames(w), !.sent = StartFrames(w)]
    /\ UNCHANGED <<creditVars, registryVars, publishVars, writerVars, subVars, cursorVars,
                   listed, openVars, sacked, exitVars, srvpc, busVars, accVars, nbus, bk>>

\* The server takes the next upstream frame: a Credit adds to the balance.
SrvTake ==
    /\ cli.up # <<>>
    /\ LET f == Head(cli.up)
       IN cli' = [cli EXCEPT !.up = Tail(@), !.taken = Append(@, f),
                             !.balance = IF f.kind = "Credit" THEN @ + f.credits ELSE @]
    /\ UNCHANGED <<creditVars, registryVars, publishVars, writerVars, subVars, cursorVars,
                   listed, openVars, sacked, exitVars, srvpc, busVars, accVars, nbus, bk>>

\* The server, which has messages left, sends a Delivery for a credit.
SrvDeliver ==
    /\ cli.balance > 0
    /\ cli.delivered < MaxDeliveries
    /\ cli' = [cli EXCEPT !.balance = @ - 1, !.delivered = @ + 1, !.down = @ + 1]
    /\ UNCHANGED <<creditVars, registryVars, publishVars, writerVars, subVars, cursorVars,
                   listed, openVars, sacked, exitVars, srvpc, busVars, accVars, nbus, bk>>

\* Subscription::next_message receives a Delivery: consume_credit.
CliNext ==
    /\ cli.pc = "next"
    /\ cli.down > 0
    /\ cli' = [cli EXCEPT !.down = @ - 1, !.received = @ + 1,
                          !.remaining_credits = SaturatingSubU32(@, 1),
                          !.pc = "refill"]
    /\ UNCHANGED <<creditVars, registryVars, publishVars, writerVars, subVars, cursorVars,
                   listed, openVars, sacked, exitVars, srvpc, busVars, accVars, nbus, bk>>

\* The consumer's loop after a message: send_ack when it acks, then
\* maybe_refill_credits.
CliRefill ==
    /\ cli.pc = "refill"
    /\ LET acks == IF cli.auto_ack THEN <<AckFrameOf>> ELSE <<>>
           grant == IF cli.remaining_credits < RefillThreshold(cli.credits_window)
                      THEN <<CreditFrame(cli.credits_window)>>
                      ELSE <<>>
       IN cli' = [cli EXCEPT !.up = @ \o acks \o grant, !.sent = @ \o acks \o grant,
                             !.remaining_credits =
                                 IF grant # <<>> THEN @ + cli.credits_window ELSE @,
                             !.pc = "next"]
    /\ UNCHANGED <<creditVars, registryVars, publishVars, writerVars, subVars, cursorVars,
                   listed, openVars, sacked, exitVars, srvpc, busVars, accVars, nbus, bk>>

\* ---- NotificationBus (flow/notify.rs)
Subscribed(b) == {r \in Receivers : b.rx[r].state = "open"}

\* broadcast::Sender::send: an error when there is no receiver, else the number
\* of receivers; notify turns the error into 0.
UnwrapOr(res, dflt) == IF res.ok THEN res.val ELSE dflt
Send(b) ==
    IF Subscribed(b) = {}
      THEN [ok |-> FALSE, val |-> 0]
      ELSE [ok |-> TRUE, val |-> Cardinality(Subscribed(b))]

\* NotificationBus::subscribe
BusSubscribe(r) ==
    /\ nbus.rx[r].state = "none"
    /\ nbus' = [nbus EXCEPT !.rx[r] = [NoReceiver EXCEPT !.state = "open",
                                                         !.from = Len(nbus.sent)]]
    /\ UNCHANGED <<creditVars, registryVars, publishVars, writerVars, subVars, cursorVars,
                   listed, openVars, sacked, exitVars, srvpc, busVars, accVars, cli, bk>>

\* NotificationBus::notify(topic_id, max_seq)
BusNotify(t, q) ==
    /\ Len(nbus.sent) < MaxNotifies
    /\ LET n == <<t, q>>
           put(r) == SendAll(nbus.rx[r].ring, nbus.rx[r].lagged, <<n>>)
       IN nbus' = [nbus EXCEPT
                     !.sent = Append(@, n),
                     !.ret = UnwrapOr(Send(nbus), 0),
                     !.rx = [r \in Receivers |->
                               IF r \in Subscribed(nbus)
                                 THEN [@[r] EXCEPT !.ring = put(r).ring,
                                                   !.lagged = put(r).lagged,
                                                   !.overrun = @ \/ put(r).lagged]
                                 ELSE @[r]]]
    /\ UNCHANGED <<creditVars, registryVars, publishVars, writerVars, subVars, cursorVars,
                   listed, openVars, sacked, exitVars, srvpc, busVars, accVars, cli, bk>>

\* Receiver::recv on a receiver that has something to yield: the marker that it
\* was overrun first, else its oldest unread notification.
BusRecv(r) ==
    /\ nbus.rx[r].state = "open"
    /\ IF nbus.rx[r].lagged
         THEN nbus' = [nbus EXCEPT !.rx[r].lagged = FALSE]
         ELSE /\ nbus.rx[r].ring # <<>>
              /\ nbus' = [nbus EXCEPT !.rx[r].ring = Tail(@),
                                      !.rx[r].got = Append(@, Head(nbus.rx[r].ring))]
    /\ UNCHANGED <<creditVars, registryVars, publishVars, writerVars, subVars, cursorVars,
                   listed, openVars, sacked, exitVars, srvpc, busVars, accVars, cli, bk>>

\* A receiver is dropped.
BusDrop(r) ==
    /\ nbus.rx[r].state = "open"
    /\ nbus' = [nbus EXCEPT !.rx[r].state = "dropped", !.rx[r].ring = <<>>,
                            !.rx[r].lagged = FALSE]
    /\ UNCHANGED <<creditVars, registryVars, publishVars, writerVars, subVars, cursorVars,
                   listed, openVars, sacked, exitVars, srvpc, busVars, accVars, cli, bk>>

\* The calls, with the receiver of every stream being served followed: a stream
\* subscribes to the bus when it starts serving and is sent what is notified
\* from then on.
WriterNotifyBus ==
    /\ NotifyCalls
    /\ LET calls == NotificationsOf(txn, {})
       IN /\ sring' = [s \in Subs |->
                         IF sstate[s] = "serving"
                           THEN SendAll(sring[s], slagged[s], calls).ring
                           ELSE sring[s]]
          /\ slagged' = [s \in Subs |->
                           IF sstate[s] = "serving"
                             THEN SendAll(sring[s], slagged[s], calls).lagged
                             ELSE slagged[s]]
    /\ UNCHANGED <<listed, openVars, sacked, exitVars, srvpc, swoke, accVars, lateVars>>

\* ---- subscription stream (service/subscribe.rs)
\* fetch_range(topic_id, after_seq, limit): the committed rows of the topic with
\* sequence > after_seq, ascending, at most limit of them.
RECURSIVE FetchRange(_, _, _, _)
FetchRange(rows, t, after, limit) ==
    LET later == {m \in rows : m.topic = t /\ m.sequence > after}
    IN IF limit = 0 \/ later = {}
         THEN <<>>
         ELSE LET m == CHOOSE x \in later : \A y \in later : x.sequence <= y.sequence
              IN <<m>> \o FetchRange(rows \ {m}, t, after, limit - 1)

\* The delivery cursor a stream starts at: the group's stored cursor when there
\* is one, otherwise the topic's maximum (Latest) or 0 (Earliest).
InitialCursorFromPosition(stored, pos, max) == IF pos = "Latest" THEN max ELSE 0
InitialCursorSwapped(stored, pos, max) ==
    IF stored # None THEN stored ELSE IF pos = "Latest" THEN 0 ELSE max
InitialCursor(stored, pos, max) ==
    IF stored # None THEN stored ELSE IF pos = "Latest" THEN max ELSE 0

\* The first upstream frames of a stream other than Init, "closed" standing
\* for a stream closed before any frame.
BadFirstFrames == {"Credit", "Ack", "closed"}

\* The numeric id of a topic, and the registry key of the group's subscription
\* to it.
TopicId(t) == IF t = "t1" THEN 1 ELSE 2
SubKey(t) == <<TopicId(t), "a">>

\* AwaitingInit: how the first frame is answered, given whether the topic it
\* names is known.
InitOutcomeAutoCreate(frame, known) == IF frame # "Init" THEN "InvalidArgument" ELSE "OK"
InitOutcome(frame, known) ==
    IF frame # "Init" THEN "InvalidArgument"
    ELSE IF ~known THEN "NotFound"
    ELSE "OK"

\* AwaitingInit: the Init frame. An unknown topic ends the stream with NotFound;
\* otherwise the group's cursor is loaded, or created when there is none, the
\* delivery cursor starts at it, the subscription is registered under its key,
\* and the stream serves with a credit balance of 0.
SubInit(s, t, pos) ==
    /\ sstate[s] = "awaiting_init"
    /\ sfirst' = [sfirst EXCEPT ![s] = "Init"]
    /\ spos' = [spos EXCEPT ![s] = pos]
    /\ stopic' = [stopic EXCEPT ![s] = t]
    /\ IF InitOutcome("Init", t \in topicsTbl) # "OK"
         THEN /\ sstate' = [sstate EXCEPT ![s] = "terminated"]
              /\ sstatus' = [sstatus EXCEPT ![s] = InitOutcome("Init", t \in topicsTbl)]
              /\ UNCHANGED <<scursor, cursorsTbl, registryVars>>
         ELSE LET start == InitialCursor(cursorsTbl[t], pos, MaxSeq(log, t))
              IN /\ sstate' = [sstate EXCEPT ![s] = "serving"]
                 /\ sstatus' = sstatus
                 /\ scursor' = [scursor EXCEPT ![s] = start]
                 /\ cursorsTbl' = [cursorsTbl EXCEPT ![t] = start]
                 /\ RegisterNow(s, SubKey(t))
    /\ UNCHANGED <<publishVars, writerVars, scredits, sgrants, sframe, sdelivered,
                   sgranted, sread, sprev, sresumes>>
    /\ UNCHANGED <<creditVars, listed, sacked, exitVars, srvpc, busVars, accVars, lateVars>>

\* AwaitingInit: the first frame is not an Init, or the stream is closed before
\* any frame: the stream ends with InvalidArgument.
SubBadOpen(s, frame) ==
    /\ sstate[s] = "awaiting_init"
    /\ sfirst' = [sfirst EXCEPT ![s] = frame]
    /\ spos' = spos
    /\ sstate' = [sstate EXCEPT ![s] = "terminated"]
    /\ sstatus' = [sstatus EXCEPT ![s] = InitOutcome(frame, FALSE)]
    /\ UNCHANGED <<publishVars, writerVars, stopic, scursor, scredits, sgrants, sframe,
                   sdelivered, sgranted, sread>>
    /\ UNCHANGED <<creditVars, registryVars, cursorVars, listed, sacked, exitVars, srvpc,
                   busVars, accVars, lateVars>>

\* Serving: a Credit{n} frame. A grant that would overflow the balance ends the
\* stream with InvalidArgument; any other grant is added to the balance.
CreditOverflows(current, n) == n > U32_MAX - current

SubCredit(s, n) ==
    /\ sstate[s] = "serving"
    /\ sgrants[s] < MaxCreditGrants
    /\ sgrants' = [sgrants EXCEPT ![s] = @ + 1]
    /\ sframe' = [sframe EXCEPT ![s] = n]
    /\ IF CreditOverflows(scredits[s], n)
         THEN /\ sstate' = [sstate EXCEPT ![s] = "terminated"]
              /\ sstatus' = [sstatus EXCEPT ![s] = "InvalidArgument"]
              /\ UnregisterNow(s)
              /\ UNCHANGED <<scredits, sgranted>>
         ELSE /\ scredits' = [scredits EXCEPT ![s] = FetchAdd(@, n)]
              /\ sgranted' = [sgranted EXCEPT ![s] = @ + n]
              /\ UNCHANGED <<sstate, sstatus, registryVars>>
    /\ UNCHANGED <<publishVars, writerVars, stopic, scursor, sdelivered, sread>>
    /\ UNCHANGED <<creditVars, cursorVars, extVars>>

\* The delivery cursor after a round: the sequence of the last row sent.
AdvanceCursorMutant(rows) == rows[1].sequence
AdvanceCursor(rows) == rows[Len(rows)].sequence

\* The sequences of the Delivery frames sent for the first k of the rows.
Deliveries(rows, k) == [i \in 1 .. k |-> rows[i].sequence]

\* Serving: one round of the delivery loop, run when the handler wakes up (a
\* notification, a tick of the refill timer, or an upstream frame handled).
\* Credits are reserved with try_consume_many; when none could be reserved the
\* round ends without a read of the log. Otherwise up to that many rows after
\* the delivery cursor are fetched and sent, the cursor moves to the last one
\* sent, and the credits reserved in surplus are given back.
DeliverRound(s) ==
    /\ sstate[s] = "serving"
    /\ LET reserved == ToConsume(scredits[s], BatchFetchLimit)
       IN IF reserved = 0
            THEN /\ sread' = [sread EXCEPT ![s] = FALSE]
                 /\ UNCHANGED <<sdelivered, scursor, scredits>>
            ELSE LET rows == FetchRange(log, stopic[s], scursor[s], reserved)
                 IN /\ sread' = [sread EXCEPT ![s] = TRUE]
                    /\ sdelivered' = [sdelivered EXCEPT ![s] =
                                        @ \o Deliveries(rows, Len(rows))]
                    /\ scursor' = [scursor EXCEPT ![s] =
                                     IF rows = <<>> THEN @ ELSE AdvanceCursor(rows)]
                    /\ scredits' = [scredits EXCEPT ![s] =
                                      FetchAdd(WrapSub(@, reserved), reserved - Len(rows))]
    /\ UNCHANGED <<publishVars, writerVars, sstate, sstatus, stopic, sgrants, sframe,
                   sgranted>>
    /\ UNCHANGED <<creditVars, registryVars, cursorVars>>

\* A round, the event that woke the handler left aside.
SubDeliver(s) ==
    /\ DeliverRound(s)
    /\ UNCHANGED extVars

\* Whether the refill poll timer of a handler runs.
RefillTimerNever(s) == FALSE
RefillTimer(s) == sstate[s] = "serving"

\* Serving: the refill poll timer ticks and a round is run.
SubOnTimer(s) ==
    /\ RefillTimer(s)
    /\ DeliverRound(s)
    /\ swoke' = [swoke EXCEPT ![s] = "timer"]
    /\ UNCHANGED <<listed, openVars, sacked, exitVars, srvpc, sring, slagged, accVars, lateVars>>

\* Serving: the receiver of the bus yields the marker that it was overrun, and
\* a round is run.
SubOnLagged(s) ==
    /\ slagged[s]
    /\ DeliverRound(s)
    /\ slagged' = [slagged EXCEPT ![s] = FALSE]
    /\ swoke' = [swoke EXCEPT ![s] = "lagged"]
    /\ UNCHANGED <<listed, openVars, sacked, exitVars, srvpc, sring, accVars, lateVars>>

\* Serving: the receiver of the bus yields a notification. One for the
\* stream's topic makes the handler run a round; one for another topic is
\* dropped by the filter.
SubOnNotification(s) ==
    /\ sstate[s] = "serving"
    /\ ~slagged[s]
    /\ sring[s] # <<>>
    /\ sring' = [sring EXCEPT ![s] = Tail(@)]
    /\ IF Head(sring[s])[1] = stopic[s]
         THEN /\ DeliverRound(s)
              /\ swoke' = [swoke EXCEPT ![s] = "notification"]
         ELSE /\ swoke' = [swoke EXCEPT ![s] = "filtered"]
              /\ UNCHANGED <<publishVars, writerVars, subVars>>
              /\ UNCHANGED <<creditVars, registryVars, cursorVars>>
    /\ UNCHANGED <<listed, openVars, sacked, exitVars, srvpc, slagged, accVars, lateVars>>

\* Serving: a round of the delivery loop in which the downstream send fails
\* after k of the fetched rows were sent: the credits of the rows not sent are
\* given back and the stream is terminated.
SubSendFail(s) ==
    /\ sstate[s] = "serving"
    /\ LET reserved == ToConsume(scredits[s], BatchFetchLimit)
           rows == FetchRange(log, stopic[s], scursor[s], reserved)
       IN /\ reserved > 0
          /\ rows # <<>>
          /\ \E k \in 0 .. Len(rows) - 1 :
                /\ sdelivered' = [sdelivered EXCEPT ![s] = @ \o Deliveries(rows, k)]
                /\ scursor' = [scursor EXCEPT ![s] =
                                 IF k = 0 THEN @ ELSE AdvanceCursor(SubSeq(rows, 1, k))]
                /\ scredits' = [scredits EXCEPT ![s] =
                                  FetchAdd(WrapSub(@, reserved), reserved - k)]
    /\ sread' = [sread EXCEPT ![s] = TRUE]
    /\ sstate' = [sstate EXCEPT ![s] = "terminated"]
    /\ UnregisterNow(s)
    /\ UNCHANGED <<publishVars, writerVars, sstatus, stopic, sgrants, sframe, sgranted>>
    /\ UNCHANGED <<creditVars, cursorVars, extVars>>

\* The sequence an Ack{message_id} resolves to: that of the topic's row with the
\* message id (from the in-flight map built at delivery, or a query on a miss),
\* None when the topic has no such row.
ResolveAckMutant(rows, t, m) == MaxSeq(rows, t)
ResolveAck(rows, t, m) ==
    IF \E x \in rows : x.topic = t /\ x.message_id = m
      THEN (CHOOSE x \in rows : x.topic = t /\ x.message_id = m).sequence
      ELSE None

\* Whether an ack resolved to seq makes the handler submit an AdvanceCursor,
\* given the last acknowledged sequence.
AckAdvancesAlways(seq, last_ack) == seq # None
AckAdvances(seq, last_ack) == seq # None /\ seq > last_ack

\* Serving: an Ack{message_id} frame for a message the group was delivered, on
\* this stream or on an earlier one. A sequence at or below the last
\* acknowledged one is ignored; otherwise an AdvanceCursor is submitted to the
\* writer, which sets the cursor to it (ok) or fails, leaving the cursor as it
\* was.
AckFrame(s, m, ok) ==
    /\ sstate[s] = "serving"
    /\ LET t == stopic[s]
           known == sprev[s] \cup {sdelivered[s][i] : i \in 1 .. Len(sdelivered[s])}
           seq == ResolveAck(log, t, m)
       IN /\ \E x \in log : x.topic = t /\ x.message_id = m /\ x.sequence \in known
          /\ cursorsTbl' = IF AckAdvances(seq, cursorsTbl[t]) /\ ok
                             THEN [cursorsTbl EXCEPT ![t] = seq]
                             ELSE cursorsTbl
    /\ UNCHANGED <<publishVars, writerVars, subVars, sprev, sresumes>>
    /\ UNCHANGED <<creditVars, registryVars, listed, openVars, exitVars, srvpc, busVars,
                   accVars, lateVars>>

SubAck(s, m, ok) ==
    /\ AckFrame(s, m, ok)
    /\ UNCHANGED sacked

\* The same frame, with what the handler did with it observed.
SubAckObserved(s, m, ok) ==
    /\ AckFrame(s, m, ok)
    /\ LET seq == ResolveAck(log, stopic[s], m)
       IN sacked' = [seq |-> seq, prior |-> cursorsTbl[stopic[s]],
                     submitted |-> AckAdvances(seq, cursorsTbl[stopic[s]])]

\* The group's client subscribes again after its stream ended: a new stream
\* awaits its Init frame.
SubResume(s) ==
    /\ sstate[s] = "terminated"
    /\ sresumes < MaxResumes
    /\ sresumes' = sresumes + 1
    /\ sprev' = [sprev EXCEPT ![s] =
                    @ \cup {sdelivered[s][i] : i \in 1 .. Len(sdelivered[s])}]
    /\ sstate' = [sstate EXCEPT ![s] = "awaiting_init"]
    /\ sstatus' = [sstatus EXCEPT ![s] = "none"]
    /\ stopic' = [stopic EXCEPT ![s] = ""]
    /\ scursor' = [scursor EXCEPT ![s] = 0]
    /\ scredits' = [scredits EXCEPT ![s] = 0]
    /\ sgrants' = [sgrants EXCEPT ![s] = 0]
    /\ sframe' = [sframe EXCEPT ![s] = 0]
    /\ sdelivered' = [sdelivered EXCEPT ![s] = <<>>]
    /\ sgranted' = [sgranted EXCEPT ![s] = 0]
    /\ sread' = [sread EXCEPT ![s] = FALSE]
    /\ sfirst' = [sfirst EXCEPT ![s] = "none"]
    /\ spos' = [spos EXCEPT ![s] = "none"]
    /\ hkey' = [hkey EXCEPT ![s] = NoKey]
    /\ rx' = [rx EXCEPT ![s] = "none"]
    /\ UNCHANGED <<publishVars, writerVars, cursorsTbl, active, mutex, hpc>>
    /\ UNCHANGED <<creditVars, listed, sacked, exitVars, srvpc, busVars, accVars, lateVars>>

\* The client closes the stream.
SubClose(s) ==
    /\ sstate[s] = "serving"
    /\ sstate' = [sstate EXCEPT ![s] = "terminated"]
    /\ sstatus' = [sstatus EXCEPT ![s] = "OK"]
    /\ UnregisterNow(s)
    /\ UNCHANGED <<publishVars, writerVars, stopic, scursor, scredits, sgrants,
                   sframe, sdelivered, sgranted, sread>>
    /\ UNCHANGED <<creditVars, cursorVars, extVars>>

\* ---- ListTopics (service/topics.rs, storage/reader.rs)
\* A topic name as the bytes of its UTF-8 encoding.
NameBytes(t) ==
    CASE t = "t1" -> <<116, 49>>
      [] t = "t2" -> <<116, 50>>

\* The comparison of ORDER BY name ASC under the default BINARY collation: byte
\* by byte, a proper prefix first.
RECURSIVE LexLess(_, _)
LexLess(a, b) ==
    IF a = <<>> THEN b # <<>>
    ELSE IF b = <<>> THEN FALSE
    ELSE IF a[1] # b[1] THEN a[1] < b[1]
    ELSE LexLess(Tail(a), Tail(b))

\* The request whose publish created topic t: the first one committed to it.
CreatedBy(t) == (CHOOSE m \in log : m.topic = t /\ m.sequence = 1).message_id

\* The rows of the topics table in the order they were inserted.
RECURSIVE ByRowid(_)
ByRowid(tbl) ==
    IF tbl = {}
      THEN <<>>
      ELSE LET t == CHOOSE x \in tbl : \A y \in tbl : CreatedBy(x) <= CreatedBy(y)
           IN <<t>> \o ByRowid(tbl \ {t})

\* ReaderPool::list_topics(): SELECT name, created_at FROM topics ORDER BY name
\* ASC, as the names returned.
ListTopicsUnordered(tbl) == ByRowid(tbl)
RECURSIVE ListTopics(_)
ListTopics(tbl) ==
    IF tbl = {}
      THEN <<>>
      ELSE LET t == CHOOSE x \in tbl :
                        \A y \in tbl \ {x} : LexLess(NameBytes(x), NameBytes(y))
           IN <<t>> \o ListTopics(tbl \ {t})

\* handle_list_topics: the topics read through the reader pool (ok), or the
\* reader's error surfaced as Internal.
HandleListTopics(ok) ==
    /\ listed' = IF ok
                   THEN [status |-> "OK", names |-> ListTopics(topicsTbl), of |-> topicsTbl]
                   ELSE [status |-> "Internal", names |-> <<>>, of |-> topicsTbl]
    /\ UNCHANGED <<publishVars, writerVars, subVars, cursorVars, openVars, sacked,
                   exitVars, srvpc, busVars, accVars, lateVars>>
    /\ UNCHANGED <<creditVars, registryVars>>

\* ---- run_server (server.rs)
\* The client cancels a publish RPC that waits for the writer; the command stays
\* on the intake.
PublishCancel(r) ==
    /\ pstate[r] = "waiting"
    /\ pstate' = [pstate EXCEPT ![r] = "cancelled"]
    /\ UNCHANGED <<ptopic, presp, pstatus, pvalid, writerVars, subVars>>
    /\ UNCHANGED <<creditVars, registryVars, cursorVars, extVars>>

\* shutdown_rx.changed() resolves: the server stops accepting requests.
ServerSignal ==
    /\ srvpc = "serving"
    /\ srvpc' = "draining"
    /\ UNCHANGED <<publishVars, writerVars, subVars, cursorVars, listed, openVars, sacked,
                   exitVars, busVars, accVars, lateVars>>
    /\ UNCHANGED <<creditVars, registryVars>>

\* serve_with_shutdown returns: the requests in flight have finished.
ServeReturn ==
    /\ srvpc = "draining"
    /\ \A r \in Reqs : pstate[r] # "waiting"
    /\ srvpc' = "stopped"
    /\ UNCHANGED <<publishVars, writerVars, subVars, cursorVars, listed, openVars, sacked,
                   exitVars, busVars, accVars, lateVars>>
    /\ UNCHANGED <<creditVars, registryVars>>

\* writer_handle.shutdown(): Shutdown is placed on the writer's intake.
WriterHandleShutdown ==
    /\ srvpc = "stopped"
    /\ intake' = Append(intake, ShutdownCmd)
    /\ srvpc' = "shutdown_sent"
    /\ UNCHANGED <<publishVars, items, batchStart, wpc, txn, txnOk, txnErr, wreply, cache,
                   log, topicsTbl, bus, lastBatch, notified, crashes, subVars>>
    /\ UNCHANGED <<cursorVars, listed, openVars, sacked, exitVars, busVars, accVars, lateVars>>
    /\ UNCHANGED <<creditVars, registryVars>>

\* The reply to Shutdown arrives and writer.join() returns.
WriterJoin ==
    /\ srvpc = "shutdown_sent"
    /\ wpc = "exited"
    /\ srvpc' = "done"
    /\ UNCHANGED <<publishVars, writerVars, subVars, cursorVars, listed, openVars, sacked,
                   exitVars, busVars, accVars, lateVars>>
    /\ UNCHANGED <<creditVars, registryVars>>

\* ---- the process
\* The process is killed and restarted: what is in memory is lost (queued
\* commands, the open transaction, the cache, pending replies, streams), what
\* was committed stays.
Crash ==
    /\ crashes < MaxCrashes
    /\ crashes' = crashes + 1
    /\ pstate' = [r \in Reqs |-> IF pstate[r] = "waiting" THEN "lost" ELSE pstate[r]]
    /\ intake' = <<>>
    /\ items' = <<>>
    /\ batchStart' = FALSE
    /\ wpc' = "collect"
    /\ txn' = <<>>
    /\ txnOk' = FALSE
    /\ txnErr' = NoMsg
    /\ wreply' = [r \in Reqs |-> NoReply]
    /\ cache' = [t \in Topics |-> None]
    /\ bus' = {}
    /\ sstate' = [s \in Subs |-> IF sstate[s] = "serving" THEN "terminated" ELSE sstate[s]]
    /\ sstatus' = [s \in Subs |-> IF sstate[s] = "serving" THEN "Unavailable" ELSE sstatus[s]]
    /\ lastBatch' = <<>>
    /\ notified' = <<>>
    /\ active' = [k \in Keys |-> 0]
    /\ rx' = [h \in Handlers |-> IF rx[h] = "pending" THEN "dropped" ELSE rx[h]]
    /\ UNCHANGED <<ptopic, presp, pstatus, pvalid, log, topicsTbl, stopic, scursor, scredits,
                   sgrants, sframe, sdelivered, sgranted, sread, mutex, hpc, hkey>>
    /\ UNCHANGED <<creditVars, cursorVars, extVars>>

NextBroker ==
    \/ \E r \in Reqs, t \in Topics : PublishSubmit(r, t)
    \/ \E r \in Reqs : PublishReturn(r)
    \/ WriterCollect
    \/ \E ts \in Timestamps : WriterFlush(ts)
    \/ WriterCommit
    \/ WriterCommitFail
    \/ WriterReply
    \/ WriterNotify
    \/ Crash

\* A subscription stream served while the writer commits. A stream reads no
\* timestamp, so every batch is written at the same time here.
NextSub ==
    \/ \E r \in Reqs, t \in Topics : PublishSubmit(r, t)
    \/ WriterCollect
    \/ WriterFlush(1)
    \/ WriterCommit
    \/ WriterCommitFail
    \/ WriterReply
    \/ WriterNotify
    \/ \E s \in Subs, t \in Topics, pos \in {"Latest", "Earliest"} : SubInit(s, t, pos)
    \/ \E s \in Subs, frame \in BadFirstFrames : SubBadOpen(s, frame)
    \/ \E s \in Subs, n \in CreditGrants : SubCredit(s, n)
    \/ \E s \in Subs : SubDeliver(s)
    \/ \E s \in Subs : SubSendFail(s)
    \/ \E s \in Subs : SubClose(s)

\* Publishes answered by a writer whose commits may fail and whose thread may
\* panic, which closes its intake.
NextErrors ==
    \/ \E r \in Reqs, t \in Topics : PublishSubmit(r, t)
    \/ \E r \in Reqs : PublishReturn(r)
    \/ WriterCollect
    \/ WriterFlush(1)
    \/ WriterCommit
    \/ WriterCommitFail
    \/ WriterReply
    \/ WriterNotify
    \/ WriterPanic

\* A request that passes the checks and one that fails each check: the empty
\* topic, the topic's length and characters, the payload size, the attributes.
\* The name t handed to PublishHandle with it is the row the request would
\* have written to.
SampleRequests ==
    {[NoRequest EXCEPT !.topic.allowed = 2],
     NoRequest,
     [NoRequest EXCEPT !.topic.allowed = MaxTopicLen + 1],
     [NoRequest EXCEPT !.topic.allowed = 1, !.topic.other = 1],
     [NoRequest EXCEPT !.topic.allowed = 2, !.payload = MAX_PAYLOAD_SIZE + 1],
     [NoRequest EXCEPT !.topic.allowed = 2, !.attributes = "unserializable"]}

\* Publishes that pass or fail the checks of the handler, and the writer.
NextReject ==
    \/ \E r \in Reqs, t \in Topics, req \in SampleRequests : PublishHandle(r, t, req)
    \/ \E r \in Reqs : PublishReturn(r)
    \/ WriterCollect
    \/ WriterFlush(1)
    \/ WriterCommit
    \/ WriterReply
    \/ WriterNotify

\* ListTopics calls made while publishes create topics.
NextTopics ==
    \/ \E r \in Reqs, t \in Topics : PublishSubmit(r, t)
    \/ WriterCollect
    \/ WriterFlush(1)
    \/ WriterCommit
    \/ WriterCommitFail
    \/ WriterReply
    \/ WriterNotify
    \/ \E ok \in BOOLEAN : HandleListTopics(ok)

\* Acks of the group's streams, in any order and repeated, while the writer
\* commits.
NextAck ==
    \/ \E r \in Reqs : PublishSubmit(r, "t1")
    \/ WriterCollect
    \/ WriterFlush(1)
    \/ WriterCommit
    \/ WriterReply
    \/ WriterNotify
    \/ \E s \in Subs, pos \in {"Latest", "Earliest"} : SubInit(s, "t1", pos)
    \/ \E s \in Subs : SubCredit(s, U32_MAX)
    \/ \E s \in Subs : SubDeliver(s)
    \/ \E s \in Subs, m \in Reqs, ok \in BOOLEAN : SubAckObserved(s, m, ok)
    \/ \E s \in Subs : SubClose(s)
    \/ \E s \in Subs : SubResume(s)

\* Publishes, some cancelled by their client, and a shutdown of the server.
NextShutdown ==
    \/ \E r \in Reqs : PublishSubmit(r, "t1")
    \/ \E r \in Reqs : PublishReturn(r)
    \/ \E r \in Reqs : PublishCancel(r)
    \/ WriterCollect
    \/ WriterFlush(1)
    \/ WriterCommit
    \/ WriterCommitFail
    \/ WriterReply
    \/ WriterNotify
    \/ WriterShutdown
    \/ ServerSignal
    \/ ServeReturn
    \/ WriterHandleShutdown
    \/ WriterJoin

\* The writer thread keeps running, a handler whose reply has arrived returns,
\* and run_server goes on once what it awaits has happened.
FairShutdown ==
    /\ \A r \in Reqs : WF_vars(PublishReturn(r))
    /\ WF_vars(WriterCollect)
    /\ WF_vars(WriterFlush(1))
    /\ WF_vars(WriterCommit \/ WriterCommitFail)
    /\ WF_vars(WriterReply)
    /\ WF_vars(WriterNotify)
    /\ WF_vars(WriterShutdown)
    /\ WF_vars(ServeReturn)
    /\ WF_vars(WriterHandleShutdown)
    /\ WF_vars(WriterJoin)

\* A stream of topic "t1" whose handler is woken by its timer and by what its
\* receiver of the bus yields, while publishes to both topics are committed.
NextPoll ==
    \/ \E r \in Reqs, t \in Topics : PublishSubmit(r, t)
    \/ WriterCollect
    \/ WriterFlush(1)
    \/ WriterCommit
    \/ WriterReply
    \/ WriterNotifyBus
    \/ \E s \in Subs, pos \in {"Latest", "Earliest"} : SubInit(s, "t1", pos)
    \/ \E s \in Subs : SubCredit(s, 1)
    \/ \E s \in Subs : SubOnTimer(s)
    \/ \E s \in Subs : SubOnLagged(s)
    \/ \E s \in Subs : SubOnNotification(s)
    \/ \E s \in Subs : SubClose(s)

\* The refill poll timer of a handler keeps ticking; nothing is assumed of the
\* notifications.
FairPoll == \A s \in Subs : WF_vars(SubOnTimer(s))

\* Receivers that subscribe, receive and are dropped while notifications of two
\* topics are sent, numbered in max_seq by the order of the calls.
NextBus ==
    \/ \E r \in Receivers : BusSubscribe(r)
    \/ \E t \in {1, 2} : BusNotify(t, Len(nbus.sent) + 1)
    \/ \E r \in Receivers : BusRecv(r)
    \/ \E r \in Receivers : BusDrop(r)

\* Calls of reconnect_backoff for small attempts, and for large ones up to the
\* largest number of the model.
Attempts == (0 .. MaxAttempt) \cup {999, U64_MAX}
NextBackoff == \E attempt \in Attempts : Backoff(attempt)

\* A consumer that loops next_message, maybe_refill_credits against a server
\* that has messages left and delivers one per credit.
Windows == 0 .. MaxWindow
NextClient ==
    \/ \E w \in Windows, ack \in BOOLEAN : CliStart(w, ack)
    \/ SrvTake
    \/ SrvDeliver
    \/ CliNext
    \/ CliRefill

FairClient ==
    /\ WF_vars(SrvTake)
    /\ WF_vars(SrvDeliver)
    /\ WF_vars(CliNext)
    /\ WF_vars(CliRefill)

BatchSizes == 0 .. MaxBatchSize
BatchDelays == 0 .. MaxBatchDelay

\* Calls on an accumulator in any order, for every configuration.
NextAcc ==
    \/ \E size \in BatchSizes, delay \in BatchDelays : AccNew(size, delay)
    \/ ClockTick
    \/ AccPush
    \/ AccCheck
    \/ AccWait
    \/ AccDrain

\* The writer's cycle on its accumulator, for every configuration.
NextBatch ==
    \/ \E size \in BatchSizes, delay \in BatchDelays : AccNew(size, delay)
    \/ ClockTick
    \/ BatchPush
    \/ AccWait
    \/ BatchFlush

\* Requests of every kind given to the validation of either handler.
NextValidate ==
    \/ \E h \in PublishHandlers, req \in Requests : PublishValidate(h, req)

\* The streams of one consumer group of topic "t1", one after another, with
\* acks, while the writer commits and the process may be killed.
NextResume ==
    \/ \E r \in Reqs : PublishSubmit(r, "t1")
    \/ WriterCollect
    \/ WriterFlush(1)
    \/ WriterCommit
    \/ WriterReply
    \/ WriterNotify
    \/ \E s \in Subs, pos \in {"Latest", "Earliest"} : SubInit(s, "t1", pos)
    \/ \E s \in Subs : SubCredit(s, U32_MAX)
    \/ \E s \in Subs : SubDeliver(s)
    \/ \E s \in Subs, m \in Reqs, ok \in BOOLEAN : SubAck(s, m, ok)
    \/ \E s \in Subs : SubClose(s)
    \/ \E s \in Subs : SubResume(s)
    \/ Crash

Init == InitCredit /\ InitRegistry /\ InitBroker

Spec == Init /\ [][NextBroker]_vars
SpecSub == Init /\ [][NextSub]_vars
SpecResume == Init /\ [][NextResume]_vars
SpecValidate == Init /\ [][NextValidate]_vars
SpecErrors == Init /\ [][NextErrors]_vars
SpecCredit == Init /\ [][NextCredit]_vars
SpecRegistry == Init /\ [][NextRegistry]_vars
SpecTopics == Init /\ [][NextTopics]_vars
SpecAck == Init /\ [][NextAck]_vars
SpecKeys == Init /\ [][NextKeys]_vars
SpecReject == Init /\ [][NextReject]_vars
SpecBackoff == Init /\ [][NextBackoff]_vars
SpecHandshake == Init /\ [][NextClient]_vars
SpecClient == Init /\ [][NextClient]_vars /\ FairClient
SpecBus == Init /\ [][NextBus]_vars
SpecAcc == Init /\ [][NextAcc]_vars
SpecBatch == Init /\ [][NextBatch]_vars
SpecPoll == Init /\ [][NextPoll]_vars /\ FairPoll
SpecShutdown == Init /\ [][NextShutdown]_vars /\ FairShutdown
SpecExit == Init /\ [][NextExit]_vars
SpecTakeover == Init /\ [][NextTakeover]_vars /\ FairTakeover
(***************************************************************************)
(* Properties                                                              *)
(***************************************************************************)
RowsOf(t) == {m \in log : m.topic = t}
InLog(r) == \E m \in log : m.message_id = r
BatchReqs == {lastBatch[i] : i \in 1 .. Len(lastBatch)}

\* C1 (Seq-density): for every topic the committed sequences are exactly
\* 1..max_seq, one row each, so every commit continues at the previous maximum
\* plus 1 with no gap and no duplicate; and the sequence a successful publish
\* returns is the sequence of its committed row.
SeqDensity ==
    /\ \A t \in Topics :
         /\ SeqsOf(log, t) = 1 .. MaxSeq(log, t)
         /\ Cardinality(RowsOf(t)) = MaxSeq(log, t)
    /\ \A r \in Reqs : pstate[r] = "ok" =>
         /\ presp[r].sequence \in 1 .. MaxSeq(log, ptopic[r])
         /\ \E m \in RowsOf(ptopic[r]) :
              m.message_id = r /\ m.sequence = presp[r].sequence
    /\ \A r, q \in Reqs :
         (r # q /\ pstate[r] = "ok" /\ pstate[q] = "ok" /\ ptopic[r] = ptopic[q])
            => presp[r].sequence # presp[q].sequence

\* C1 witness: a topic holds three committed rows and its third publish was
\* answered with sequence 3 (with MaxBatchSize = 2 the three rows took at least
\* two batches).
SeqDensityWitness ==
    \E t \in Topics, r \in Reqs :
        /\ MaxSeq(log, t) >= 3
        /\ pstate[r] = "ok"
        /\ ptopic[r] = t
        /\ presp[r].sequence = 3

\* C2 (Durability-on-ack): whenever a client holds a success response, the log
\* holds the row with the response's message_id, sequence and timestamp; this
\* stays so after a crash and restart.
DurabilityOnAck ==
    \A r \in Reqs : pstate[r] = "ok" =>
        [message_id |-> presp[r].message_id, topic |-> ptopic[r],
         sequence |-> presp[r].sequence, timestamp |-> presp[r].timestamp] \in log

\* C2 witness: the process was killed after request 1 had been answered with
\* success and while request 2 was still waiting for the writer.
DurabilityOnAckWitness ==
    /\ crashes >= 1
    /\ pstate[1] = "ok"
    /\ pstate[2] = "lost"

\* C3 (batch atomicity): of the commands the accumulator held at a flush, either
\* all are committed or none is; the writer's replies to them, and the statuses
\* their producers receive, are never mixed; a success reply carries the
\* sequence of the committed row and a Database error means no row; and once
\* the writer is through with the batch every producer of it has its reply.
BatchAtomicity ==
    /\ (\A r \in BatchReqs : InLog(r)) \/ (\A r \in BatchReqs : ~InLog(r))
    /\ \A r, q \in BatchReqs :
         /\ ~(wreply[r].kind = "ok" /\ wreply[q].kind = "database")
         /\ ~(pstatus[r] = "OK" /\ pstatus[q] \notin {"OK", "none"})
    /\ \A r \in BatchReqs :
         /\ wreply[r].kind = "ok" =>
              \E m \in log : m.message_id = r /\ m.sequence = wreply[r].sequence
         /\ wreply[r].kind = "database" => ~InLog(r)
    /\ (wpc \in {"collect", "notify"}) =>
         \/ \A r \in BatchReqs : wreply[r].kind = "ok"
         \/ \A r \in BatchReqs : wreply[r].kind = "database"

\* C3 witness: a batch of two publishes failed to commit on a full disk and both
\* producers were answered with the Database error.
BatchAtomicityWitness ==
    /\ Len(lastBatch) = 2
    /\ wpc = "collect"
    /\ \A r \in BatchReqs : wreply[r].kind = "database" /\ pstatus[r] = "Unavailable"

\* C4 (ordering): the sequences delivered on a stream are strictly increasing.
DeliveryOrdered ==
    \A s \in Subs : \A i, j \in 1 .. Len(sdelivered[s]) :
        i < j => sdelivered[s][i] < sdelivered[s][j]

\* C4 witness: a stream has delivered three messages, which takes more than one
\* round of the delivery loop.
DeliveryOrderedWitness ==
    \E s \in Subs : Len(sdelivered[s]) >= 3

\* A handler whose stream is being served and whose cancel receiver has not been
\* fired.
ActiveSub(h) == hpc[h] = "serving" /\ rx[h] # "fired"

\* C5 (takeover-atomicity): for every key at most one subscription is active.
TakeoverAtomicity ==
    \A k \in Keys : Cardinality({h \in Handlers : hkey[h] = k /\ ActiveSub(h)}) <= 1

\* C6 (compare-and-remove): an unregister by a handler whose sender is not the
\* one stored for its key leaves the stored entry in place.
UnregisterComparesIdentity ==
    [][\A h \in Handlers :
          (hpc[h] = "unreg_remove" /\ hpc'[h] = "done" /\ active[hkey[h]] # h)
             => active'[hkey[h]] = active[hkey[h]]]_vars

\* C7 (register swaps and fires): the remove step of register signals the
\* receiver of the entry it displaces; between that step and the insert nobody
\* else's entry appears for the key; register returns with the entry of the key
\* being the caller's; and no step of register drops a waiting sender unfired.
RegisterSwapsAndFires ==
    [][\A h \in Handlers :
          /\ (hpc[h] = "reg_remove" /\ hpc'[h] = "reg_insert") =>
                \A o \in Handlers : active[hkey[h]] = o =>
                    /\ rx[o] = "pending"
                    /\ rx'[o] = "fired"
                    /\ active'[hkey[h]] = 0
          /\ (hpc[h] = "reg_insert" /\ hpc'[h] = "serving") =>
                /\ active[hkey[h]] = 0
                /\ active'[hkey[h]] = h
                /\ \A o \in Handlers : ~(rx[o] = "pending" /\ rx'[o] = "closed")]_vars

\* C7 witness: a handler serves with its own entry stored after displacing
\* another handler of the same key, whose receiver was fired.
RegisterSwapsAndFiresWitness ==
    \E h, o \in Handlers :
        /\ h # o
        /\ hkey[h] = hkey[o]
        /\ hpc[h] = "serving"
        /\ active[hkey[h]] = h
        /\ rx[o] = "fired"
        /\ hpc[o] = "serving"

\* C8 (credit non-negativity): the counter stays within [0, u32::MAX], and a
\* consume that succeeds takes no more than was requested and no more than the
\* counter held at that moment, leaving the counter lower by exactly what it
\* returned.
CreditNonNegative ==
    /\ [](credits \in 0 .. U32_MAX)
    /\ [][\A t \in CThreads :
            (cpc[t] = "cas" /\ cpc'[t] = "idle") =>
                /\ cret'[t] >= 0
                /\ cret'[t] <= cop[t].amount
                /\ cret'[t] <= credits
                /\ credits' = credits - cret'[t]]_vars

\* C8 witness: a try_consume_many found fewer credits than it asked for and
\* took them all.
CreditNonNegativeWitness ==
    \E t \in CThreads :
        /\ cop[t].kind = "try_consume_many"
        /\ cpc[t] = "idle"
        /\ cret[t] >= 1
        /\ cret[t] < cop[t].amount
        /\ credits = 0

\* C9 (saturating add): add(n) leaves min(c + n, u32::MAX), returns the stored
\* balance, and never lowers the balance.
AddSaturates ==
    [][\A t \in CThreads :
          (cop'[t] # cop[t] /\ cop'[t].kind = "add") =>
              /\ credits' = Min(credits + cop'[t].amount, U32_MAX)
              /\ cret'[t] = credits'
              /\ credits' >= credits]_vars

\* C10 (credit overflow rejected): a Credit{n} with n > u32::MAX - balance ends
\* the stream with InvalidArgument and leaves the balance as it was; any other
\* Credit{n} raises the balance by exactly n and the stream keeps serving.
CreditOverflowRejected ==
    [][\A s \in Subs :
          sgrants'[s] # sgrants[s] =>
              IF sframe'[s] > U32_MAX - scredits[s]
                THEN /\ sstate'[s] = "terminated"
                     /\ sstatus'[s] = "InvalidArgument"
                     /\ scredits'[s] = scredits[s]
                ELSE /\ sstate'[s] = "serving"
                     /\ scredits'[s] = scredits[s] + sframe'[s]]_vars

\* C10 witness: a stream holding credits was ended with InvalidArgument by a
\* grant that would have overflowed its balance.
CreditOverflowRejectedWitness ==
    \E s \in Subs :
        /\ sstatus[s] = "InvalidArgument"
        /\ scredits[s] >= 1
        /\ sframe[s] = U32_MAX

\* C11 (credit accounting): on every stream the Delivery frames sent never
\* outnumber the credits granted, and the balance is the credits granted minus
\* the deliveries sent: what a round reserved and did not use (fewer rows than
\* reserved, or a failed send) is back in the balance.
CreditAccounting ==
    \A s \in Subs :
        /\ Len(sdelivered[s]) <= sgranted[s]
        /\ scredits[s] = sgranted[s] - Len(sdelivered[s])

\* C11 witness: a round reserved two credits, sent one row and failed on the
\* second send; the credit of the row not sent is back in the balance.
CreditAccountingWitness ==
    \E s \in Subs :
        /\ sstate[s] = "terminated"
        /\ sstatus[s] = "none"
        /\ sgranted[s] = 2
        /\ Len(sdelivered[s]) = 1
        /\ scredits[s] = 1

\* C12 (back-pressure): a round of the delivery loop reads the log exactly when
\* the balance held at least one credit at its start; with a balance of 0 no
\* round reads the log or sends a delivery, whatever the backlog.
BackPressure ==
    [][\A s \in Subs :
          /\ (sread'[s] # sread[s] \/ sdelivered'[s] # sdelivered[s])
                => (sread'[s] <=> scredits[s] >= 1)
          /\ scredits[s] = 0
                => (sdelivered'[s] = sdelivered[s] /\ (sread'[s] => sread[s]))]_vars

\* C12 witness: a stream that has delivered before is out of credits with
\* committed messages beyond its delivery cursor, and its last round, woken
\* with the balance at 0, did not read the log.
BackPressureWitness ==
    \E s \in Subs :
        /\ sstate[s] = "serving"
        /\ scredits[s] = 0
        /\ Len(sdelivered[s]) >= 1
        /\ scursor[s] < MaxSeq(log, stopic[s])
        /\ ~sread[s]

DeliveredSet(s) == {sdelivered[s][i] : i \in 1 .. Len(sdelivered[s])}

\* C13 (at-least-once): a stream starts delivering right after a point that is
\* not beyond the group's durable cursor (the stored cursor on a resume, 0 with
\* Earliest and no cursor), and from there delivers the committed sequences
\* one by one without a gap; so every sequence above the durable cursor,
\* delivered before or not, is delivered by the next stream before anything
\* after it.
AtLeastOnce ==
    /\ [](\A s \in Subs : \A i \in 1 .. Len(sdelivered[s]) :
             /\ sdelivered[s][i] = scursor[s] - Len(sdelivered[s]) + i
             /\ \E x \in log : x.topic = stopic[s] /\ x.sequence = sdelivered[s][i])
    /\ [][\A s \in Subs :
            /\ (sstate[s] = "awaiting_init" /\ sstate'[s] = "serving") =>
                  /\ cursorsTbl[stopic'[s]] # None => scursor'[s] = cursorsTbl[stopic'[s]]
                  /\ scursor'[s] <= cursorsTbl'[stopic'[s]]
                  /\ scursor'[s] <= MaxSeq(log, stopic'[s])
            /\ (sstate[s] = "serving" /\ sdelivered'[s] # sdelivered[s]) =>
                  /\ Len(sdelivered'[s]) > Len(sdelivered[s])
                  /\ sdelivered'[s][Len(sdelivered[s]) + 1] = scursor[s] + 1
                  /\ SubSeq(sdelivered'[s], 1, Len(sdelivered[s])) = sdelivered[s]]_vars

\* C13 witness: after a kill of the process, the group's next stream has
\* delivered again a sequence that an earlier stream had delivered and whose ack
\* was never recorded.
AtLeastOnceWitness ==
    \E s \in Subs : \E q \in sprev[s] :
        /\ crashes >= 1
        /\ sresumes >= 1
        /\ q \in DeliveredSet(s)
        /\ cursorsTbl[stopic[s]] < q

TopicValidation ==
    pvalid.handler # "none" =>
        LET topic == pvalid.req.topic
        IN /\ (TopicChars(topic) = 0 \/ TopicChars(topic) > 255 \/ ~AllAllowed(topic))
                 => pvalid.res.status = "InvalidArgument"
           /\ (TopicChars(topic) \in 1 .. 255 /\ AllAllowed(topic))
                 => pvalid.res.check \notin {"topic_empty", "topic_length", "topic_chars"}

\* The checks a request fails, and the first of them in the order non-empty
\* topic, topic length, topic characters, payload size, attribute
\* serialization.
FailedChecks(req) ==
    {c \in {"topic_empty", "topic_length", "topic_chars", "payload_size", "attributes"} :
        \/ c = "topic_empty" /\ TopicLen(req.topic) = 0
        \/ c = "topic_length" /\ TopicLen(req.topic) > 255
        \/ c = "topic_chars" /\ ~AllAllowed(req.topic)
        \/ c = "payload_size" /\ req.payload > 4 * 1024 * 1024
        \/ c = "attributes" /\ req.attributes = "unserializable"}
CheckOrder == <<"topic_empty", "topic_length", "topic_chars", "payload_size", "attributes">>
FirstFailed(req) ==
    LET i == CHOOSE j \in 1 .. Len(CheckOrder) :
                 /\ CheckOrder[j] \in FailedChecks(req)
                 /\ \A k \in 1 .. j - 1 : CheckOrder[k] \notin FailedChecks(req)
    IN CheckOrder[i]

\* C16 (validation order and payload limit): handle_publish of
\* crates/sluice-server answers with the status of the first check that fails
\* in that order, ResourceExhausted for the payload size and InvalidArgument
\* for the others; a payload of exactly 4 MiB passes and one of a byte more,
\* with a valid topic, is ResourceExhausted; an invalid topic with an oversized
\* payload is InvalidArgument.
ValidationOrder ==
    pvalid.handler = "sluice-server" =>
        LET req == pvalid.req
            res == pvalid.res
            validTopic == TopicLen(req.topic) \in 1 .. 255 /\ AllAllowed(req.topic)
        IN /\ FailedChecks(req) = {} <=> res = Passed
           /\ FailedChecks(req) # {} =>
                 /\ res.check = FirstFailed(req)
                 /\ res.status = IF res.check = "payload_size" THEN "ResourceExhausted"
                                  ELSE "InvalidArgument"
           /\ (validTopic /\ req.payload > 4 * 1024 * 1024)
                 => res.status = "ResourceExhausted"
           /\ (validTopic /\ req.payload = 4 * 1024 * 1024)
                 => res.check \notin {"payload_size"} /\ res.status # "ResourceExhausted"
           /\ (~validTopic /\ req.payload > 4 * 1024 * 1024)
                 => res.status = "InvalidArgument"

\* C16 witness: a request with a character outside the class in its topic and a
\* payload of 4 MiB + 1 was answered InvalidArgument for the characters.
ValidationOrderWitness ==
    /\ pvalid.handler = "sluice-server"
    /\ pvalid.req.topic.other = 1
    /\ TopicLen(pvalid.req.topic) <= 255
    /\ pvalid.req.payload = 4 * 1024 * 1024 + 1
    /\ pvalid.res = Rejected("InvalidArgument", "topic_chars")

\* C17 (writer error mapping): a publish answered by the writer with
\* ChannelClosed returns Unavailable, with Database(msg) where msg contains
\* "disk" or "full" Unavailable, with any other Database(msg) Internal, with
\* ThreadPanic Internal; so every writer error gives one status, and no
\* writer error gives a success response.
WriterErrorMapping ==
    \A r \in Reqs : (pstate[r] \in {"ok", "err"} /\ wreply[r] # NoReply) =>
        LET e == wreply[r]
        IN /\ e.kind = "channel_closed" => pstatus[r] = "Unavailable"
           /\ (e.kind = "database" /\ ("disk" \in e.msg \/ "full" \in e.msg))
                 => pstatus[r] = "Unavailable"
           /\ (e.kind = "database" /\ ~("disk" \in e.msg \/ "full" \in e.msg))
                 => pstatus[r] = "Internal"
           /\ e.kind = "thread_panic" => pstatus[r] = "Internal"
           /\ e.kind # "ok" =>
                 /\ pstate[r] = "err"
                 /\ pstatus[r] \in {"Unavailable", "Internal"}
                 /\ presp[r] = NoResp
           /\ e.kind = "ok" => pstatus[r] = "OK"

\* C17 witness: one publish was answered ThreadPanic and returned Internal,
\* another found the intake closed and returned Unavailable, and a third failed
\* with a database error that is not about the disk and returned Internal.
WriterErrorMappingWitness ==
    \E r, q, u \in Reqs :
        /\ wreply[r].kind = "thread_panic" /\ pstatus[r] = "Internal"
        /\ wreply[q].kind = "channel_closed" /\ pstatus[q] = "Unavailable"
        /\ wreply[u].kind = "database" /\ pstatus[u] = "Internal"

\* The sequence the writer would give the next row of topic t, from its cache c
\* over the log l.
NextAssigned(c, l, t) == NextSeq(IF c[t] = None THEN MaxSeq(l, t) ELSE c[t])
\* The committed publishes to the topic of r that entered the intake before r.
EarlierCommitted(r) == {q \in Reqs : q < r /\ ptopic[q] = ptopic[r] /\ InLog(q)}

\* C18 (topic auto-create, per-topic independence): a topic exists exactly when
\* a publish to it was committed, and the first committed publish to a topic
\* returns sequence 1; no step changes the existence, the maximum sequence or
\* the next assigned sequence of a topic other than those of the batch the
\* writer is working on; and a topic created by a commit starts at sequence 1.
TopicIndependence ==
    /\ [](\A t \in Topics : t \in topicsTbl <=> RowsOf(t) # {})
    /\ [](\A r \in Reqs : (pstate[r] = "ok" /\ EarlierCommitted(r) = {})
               => presp[r].sequence = 1)
    /\ [][\A t \in Topics :
            /\ t \notin TopicsIn(txn) \cup TopicsIn(txn') =>
                  /\ MaxSeq(log', t) = MaxSeq(log, t)
                  /\ NextAssigned(cache', log', t) = NextAssigned(cache, log, t)
                  /\ t \in topicsTbl' <=> t \in topicsTbl
            /\ (t \notin topicsTbl /\ t \in topicsTbl') =>
                  /\ 1 \in SeqsOf(log', t)
                  /\ SeqsOf(log', t) = 1 .. MaxSeq(log', t)]_vars

\* C18 witness: after two publishes to one topic were answered with sequences
\* 1 and 2, the first publish to the other topic was answered with sequence 1.
TopicIndependenceWitness ==
    \E r, q, u \in Reqs :
        /\ r < q /\ q < u
        /\ ptopic[r] = ptopic[q] /\ ptopic[u] # ptopic[r]
        /\ pstate[r] = "ok" /\ presp[r].sequence = 1
        /\ pstate[q] = "ok" /\ presp[q].sequence = 2
        /\ pstate[u] = "ok" /\ presp[u].sequence = 1

\* C19 (intake order): of two publishes to one topic that both succeeded, the
\* one that entered the intake queue first has the smaller sequence, in its
\* response and in the log.
IntakeOrder ==
    \A r, q \in Reqs :
        (r < q /\ ptopic[r] = ptopic[q]) =>
            /\ (pstate[r] = "ok" /\ pstate[q] = "ok")
                  => presp[r].sequence < presp[q].sequence
            /\ \A m, n \in log :
                  (m.message_id = r /\ n.message_id = q) => m.sequence < n.sequence

\* C19 witness: three publishes to one topic were committed in more than one
\* batch, the third in a batch of its own, and all were answered, with
\* sequences in intake order.
IntakeOrderWitness ==
    /\ \A r \in Reqs : pstate[r] = "ok" /\ ptopic[r] = "t1"
    /\ \E m, n, o \in log :
          /\ m.message_id = 1 /\ n.message_id = 2 /\ o.message_id = 3
          /\ m.sequence = 1 /\ n.sequence = 2 /\ o.sequence = 3
    /\ lastBatch = <<3>>
    /\ MaxBatchSize >= 2

\* The rows the last flushed batch committed.
BatchRows == {m \in log : m.message_id \in BatchReqs}

\* C20 (notification after commit): every notification on the bus names a
\* committed sequence of its topic; once the writer is through with a committed
\* batch it has made exactly one notify call per distinct topic of the batch,
\* with the topic's new maximum; and for a batch that is not committed it has
\* made none.
NotifyAfterCommit ==
    /\ \A n \in bus : n[2] \in SeqsOf(log, n[1])
    /\ \A i \in 1 .. Len(notified) : notified[i] \in bus
    /\ (wpc = "collect" /\ notified # <<>>) =>
          /\ Len(notified) = Cardinality({m.topic : m \in BatchRows})
          /\ \A t \in {m.topic : m \in BatchRows} :
                \E i \in 1 .. Len(notified) :
                    notified[i] = <<t, MaxSeq(BatchRows, t)>>
          /\ \A i \in 1 .. Len(notified) : notified[i][2] = MaxSeq(log, notified[i][1])
    /\ (wpc = "collect" /\ lastBatch # <<>> /\ BatchRows # {}) => notified # <<>>
    /\ BatchRows = {} => notified = <<>>

\* C20 witness: a committed batch of two publishes to two topics was followed
\* by one notification for each topic, after an earlier batch had failed
\* without any.
NotifyAfterCommitWitness ==
    /\ wpc = "collect"
    /\ Len(notified) = 2
    /\ notified[1][1] # notified[2][1]
    /\ \E r \in Reqs : pstatus[r] \in {"Unavailable", "Internal"}

\* C21 (ListTopics): a successful ListTopics returns every topic of the topics
\* table exactly once, in strictly ascending byte order of the names, whichever
\* topic was created first.
ListTopicsSorted ==
    listed.status = "OK" =>
        /\ {listed.names[i] : i \in 1 .. Len(listed.names)} = listed.of
        /\ Len(listed.names) = Cardinality(listed.of)
        /\ \A i, j \in 1 .. Len(listed.names) :
              i < j => LexLess(NameBytes(listed.names[i]), NameBytes(listed.names[j]))

\* C21 witness: ListTopics returned both topics, the one with the greater name
\* having been created first.
ListTopicsSortedWitness ==
    /\ listed.status = "OK"
    /\ Len(listed.names) = 2
    /\ CreatedBy(listed.names[2]) < CreatedBy(listed.names[1])

\* C22 (subscribe init): a stream is served only after an Init as its first
\* frame, naming a known topic; a first frame that is a Credit or an Ack, or a
\* close before any frame, ends the stream with InvalidArgument; and an Init
\* naming an unknown topic ends it with NotFound, creating no topic, no message,
\* no cursor and no registry entry.
SubscribeInit ==
    /\ [](\A s \in Subs :
            /\ sstate[s] = "serving" => (sfirst[s] = "Init" /\ stopic[s] \in topicsTbl)
            /\ sfirst[s] \in BadFirstFrames =>
                  (sstate[s] = "terminated" /\ sstatus[s] = "InvalidArgument"))
    /\ [][\A s \in Subs :
            (sstate[s] = "awaiting_init" /\ sstate'[s] # "awaiting_init") =>
                /\ sstate'[s] = "serving" <=>
                      (sfirst'[s] = "Init" /\ stopic'[s] \in topicsTbl)
                /\ (sfirst'[s] = "Init" /\ stopic'[s] \notin topicsTbl) =>
                      /\ sstate'[s] = "terminated"
                      /\ sstatus'[s] = "NotFound"
                      /\ topicsTbl' = topicsTbl
                      /\ log' = log
                      /\ cursorsTbl' = cursorsTbl
                      /\ active' = active]_vars

\* C22 witness: while another topic exists, an Init naming an unknown topic
\* ended the stream with NotFound, and there is no cursor and no registry entry.
SubscribeInitWitness ==
    \E s \in Subs :
        /\ sfirst[s] = "Init"
        /\ sstatus[s] = "NotFound"
        /\ topicsTbl # {}
        /\ stopic[s] \notin topicsTbl
        /\ \A t \in Topics : cursorsTbl[t] = None
        /\ \A k \in Keys : active[k] = 0

\* C23 (initial position): when a stream starts serving a topic for which the
\* group has no cursor, the cursor is created and the delivery cursor starts at
\* the topic's current maximum with Latest and at 0 with Earliest; when the
\* group has a cursor, the delivery cursor starts at the stored last_seq and the
\* cursor is left as it is; and the first message a stream delivers is the one
\* right after its starting point.
InitialPosition ==
    [][\A s \in Subs :
          /\ (sstate[s] = "awaiting_init" /\ sstate'[s] = "serving") =>
                LET t == stopic'[s]
                    stored == cursorsTbl[t]
                IN /\ (stored = None /\ spos'[s] = "Latest") =>
                         /\ scursor'[s] = MaxSeq(log, t)
                         /\ cursorsTbl'[t] = MaxSeq(log, t)
                   /\ (stored = None /\ spos'[s] = "Earliest") =>
                         /\ scursor'[s] = 0
                         /\ cursorsTbl'[t] = 0
                   /\ stored # None =>
                         /\ scursor'[s] = stored
                         /\ cursorsTbl'[t] = stored
          /\ (sstate[s] = "serving" /\ sdelivered[s] = <<>> /\ sdelivered'[s] # <<>>) =>
                /\ sdelivered'[s][1] = scursor[s] + 1
                /\ (spos[s] = "Earliest" /\ sprev[s] = {} /\ sresumes = 0) =>
                      sdelivered'[s][1] = 1]_vars

\* C23 witness: the group's first stream started with Latest on a topic that
\* held a message already, and the first message it delivered is a later one.
InitialPositionWitness ==
    \E s \in Subs :
        /\ sresumes = 0
        /\ spos[s] = "Latest"
        /\ sdelivered[s] # <<>>
        /\ sdelivered[s][1] >= 2

Terminated(h) == hpc[h] = "done"

\* C25 (registry cleanup): a handler leaves its serving loop only towards
\* unregister, whichever exit path it takes; it has returned from unregister
\* when it is terminated and never calls it again; and once every subscription
\* for a key has terminated the registry holds no entry for the key.
RegistryCleanup ==
    /\ [](\A k \in Keys :
            (\A h \in Handlers : hkey[h] = k => Terminated(h)) => active[k] = 0)
    /\ [](\A h \in Handlers :
            Terminated(h) => (hexit[h] \in ExitPaths /\ rx[h] = "dropped"))
    /\ [][\A h \in Handlers :
            /\ (hpc[h] = "serving" /\ hpc'[h] # "serving") =>
                  (hpc'[h] = "unreg_lock" /\ hexit'[h] \in ExitPaths)
            /\ hpc'[h] = "unreg_lock" => hpc[h] \in {"serving", "unreg_lock"}
            /\ Terminated(h) => Terminated(h)']_vars

\* C25 witness: the three subscriptions for one key have terminated, by
\* takeover, by credit overflow and by shutdown, and the key has no entry.
RegistryCleanupWitness ==
    \E k \in Keys :
        /\ \A h \in Handlers : hkey[h] = k /\ Terminated(h)
        /\ \E h \in Handlers : hexit[h] = "takeover"
        /\ \E h \in Handlers : hexit[h] = "credit_overflow"
        /\ \E h \in Handlers : hexit[h] = "shutdown"
        /\ active[k] = 0

\* C26 (takeover termination), as claimed: when two subscriptions for one key
\* are being served, one of them, the prior one, eventually terminates; a
\* handler leaves on observing its cancel signal with Aborted; and a handler
\* that has left its serving loop sends no Delivery.
TakeoverTermination ==
    /\ \A h, o \in Handlers :
          (h < o /\ hkey[h] = hkey[o] /\ hpc[h] = "serving" /\ hpc[o] = "serving")
             ~> (Terminated(h) \/ Terminated(o))
    /\ [][\A h \in Handlers :
            /\ (hpc[h] = "serving" /\ hexit'[h] = "takeover") =>
                  (rx[h] = "fired" /\ ExitStatus(hexit'[h]) = "Aborted")
            /\ hexit[h] # "none" => hsent'[h] = hsent[h]]_vars

\* The publish commands that were placed on the writer's intake.
Submitted == {r \in Reqs : pstate[r] # "new" /\ wreply[r].kind # "channel_closed"}

EventualDelivery ==
    /\ \A s \in Subs : \A c \in 0 .. MaxPublishes :
          (sstate[s] = "serving" /\ scredits[s] > 0 /\ scursor[s] = c
             /\ c < MaxSeq(log, stopic[s]))
             ~> (sstate[s] # "serving" \/ (scursor[s] > c /\ c + 1 \in DeliveredSet(s)))
    /\ [][\A s \in Subs :
            sdelivered'[s] # sdelivered[s] =>
                sdelivered'[s][Len(sdelivered[s]) + 1] = scursor[s] + 1]_vars

\* C28 witness: woken by its timer, a stream has delivered every message of its
\* topic, two of them, while its receiver was overrun and the marker not yet
\* read.
EventualDeliveryWitness ==
    \E s \in Subs :
        /\ sstate[s] = "serving"
        /\ swoke[s] = "timer"
        /\ slagged[s]
        /\ MaxSeq(log, stopic[s]) = 2
        /\ sdelivered[s] = <<1, 2>>

\* C29 (batch size bound): no batch drained into a commit transaction holds
\* more than max_batch_size commands, where the writer pushes while the batch
\* is not ready and drains it once it is ready, by its size or by its delay.
BatchSizeBound ==
    bret.op = "drain" =>
        /\ Len(bret.drained) > 0
        /\ Len(bret.drained) <= acc.max_batch_size

\* The batch is ready as of now: not empty, and full or as old as the delay.
ReadyNow ==
    /\ Len(acc.items) > 0
    /\ \/ Len(acc.items) >= acc.max_batch_size
       \/ clock - acc.batch_start >= acc.max_batch_delay

DrainReturnsAll ==
    [][/\ (bret'.op = "drain" /\ <<acc, bret>>' # <<acc, bret>>) =>
              /\ bret'.drained = acc.items
              /\ acc'.items = <<>>
              /\ acc'.batch_start = NoInstant
       /\ bcount' = bcount + 1 =>
              /\ acc'.items = Append(acc.items, bcount')
              /\ acc.items = <<>> => acc'.batch_start = clock
              /\ acc.items # <<>> => acc'.batch_start = acc.batch_start
       /\ (bcount' = bcount /\ bret'.op # "drain") => acc'.items = acc.items]_vars

\* C31 witness: a second drain returned the items pushed after the first one,
\* in push order.
DrainReturnsAllWitness ==
    /\ bret.op = "drain"
    /\ bret.drained = <<2, 3>>
    /\ acc.items = <<>>
    /\ acc.batch_start = NoInstant

\* C32 (CreditBalance operation results): a new balance is 0; on the balance c
\* it acts on, try_consume_many(n) returns min(c, n) and leaves c - min(c, n),
\* try_consume returns true and leaves c - 1 when c > 0 and returns false and
\* leaves c when c = 0, reset returns c and leaves 0, and available returns c
\* and leaves c. A consume that returns is counted as 1 for true, 0 for false.
CreditResults ==
    /\ credits = 0
    /\ [][\A t \in CThreads :
            /\ (cop'[t] # cop[t] /\ cop'[t].kind = "reset") =>
                   (cret'[t] = credits /\ credits' = 0)
            /\ (cop'[t] # cop[t] /\ cop'[t].kind = "available") =>
                   (cret'[t] = credits /\ credits' = credits)
            /\ (cpc[t] = "cas" /\ cpc'[t] = "idle") =>
                   LET n == IF cop[t].kind = "try_consume" THEN 1 ELSE cop[t].amount
                   IN /\ cret'[t] = Min(credits, n)
                      /\ credits' = credits - Min(credits, n)
                      /\ cop[t].kind = "try_consume" => (credits > 0 /\ cret'[t] = 1)
            /\ (cpc[t] = "load" /\ cpc'[t] = "idle") =>
                   (credits = 0 /\ cret'[t] = 0 /\ credits' = 0)
            /\ (cpc[t] = "cas" /\ cpc'[t] = "load") => credits' = credits]_vars

\* C32 witness: a reset returned the two credits there were, and a try_consume
\* made after it found none and returned false.
CreditResultsWitness ==
    \E t, u \in CThreads :
        /\ cop[t].kind = "reset" /\ cret[t] = 2
        /\ cop[u].kind = "try_consume" /\ cop[u].call > cop[t].call
        /\ cpc[u] = "idle" /\ cret[u] = 0
        /\ credits = 0

\* What was sent since receiver r subscribed.
SentSince(r) == SubSeq(nbus.sent, nbus.rx[r].from + 1, Len(nbus.sent))

CurrentlyRegistered(h) == hpc[h] \in {"serving", "unreg_lock"} /\ rx[h] # "fired"

\* C34 (registry key independence), as claimed: a step of register or
\* unregister on key k leaves the entry of every other key as it was and
\* changes the cancel receiver of no handler of another key; and, while nobody
\* is inside the registry, it holds as many entries as there are distinct keys
\* currently registered.
KeyIndependence ==
    /\ [][\A h \in Handlers :
            hpc'[h] # hpc[h] =>
                \A k \in Keys \ {hkey'[h]} :
                    /\ active'[k] = active[k]
                    /\ \A o \in Handlers : (o # h /\ hkey[o] = k) => rx'[o] = rx[o]]_vars
    /\ [](mutex = 0 =>
            Cardinality({k \in Keys : active[k] # 0})
              = Cardinality({hkey[h] : h \in {x \in Handlers : CurrentlyRegistered(x)}}))

\* C35 (recovery after a failed commit): between two cycles of the writer the
\* cached maximum of a topic is absent or is the durable maximum, also after a
\* commit that failed; and the rows of an open transaction carry, per topic,
\* the sequences that follow the durable maximum without a gap, so that no
\* sequence given out in a failed batch is skipped and none that is committed
\* is given again.
FailedCommitRecovery ==
    /\ wpc = "collect" =>
          \A t \in Topics : cache[t] = None \/ cache[t] = MaxSeq(log, t)
    /\ wpc = "commit" =>
          \A t \in Topics :
              LET n == Cardinality({i \in 1 .. Len(txn) : txn[i].topic = t})
              IN {txn[i].sequence : i \in {j \in 1 .. Len(txn) : txn[j].topic = t}}
                   = MaxSeq(log, t) + 1 .. MaxSeq(log, t) + n

\* C35 witness: the commit of one publish to a topic failed, and a later
\* publish to the topic was committed with sequence 1, the one the failed
\* batch had given out.
FailedCommitRecoveryWitness ==
    \E r1, r2 \in Reqs :
        /\ ptopic[r1] = ptopic[r2]
        /\ wreply[r1].kind = "database"
        /\ wreply[r2].kind = "ok" /\ wreply[r2].sequence = 1
        /\ wpc = "collect"
        /\ crashes = 0
        /\ cache[ptopic[r2]] = 1
        /\ MaxSeq(log, ptopic[r2]) = 1

\* C36 (client subscription handshake): once started, the first upstream frame
\* of a subscription is Init and the second a Credit of credits_window, ahead
\* of every Ack and further Credit, and the server takes the frames in that
\* order; start sets remaining_credits to credits_window, and every Delivery
\* received lowers remaining_credits by one, not below 0.
ClientHandshake ==
    /\ [](cli.pc # "new" =>
            /\ Len(cli.sent) >= 2
            /\ cli.sent[1] = InitFrame
            /\ cli.sent[2] = CreditFrame(cli.credits_window)
            /\ cli.taken \o cli.up = cli.sent
            /\ cli.remaining_credits >= 0)
    /\ [][/\ (cli.pc = "new" /\ cli'.pc # "new") =>
                cli'.remaining_credits = cli'.credits_window
          /\ cli'.received = cli.received + 1 =>
                cli'.remaining_credits =
                    IF cli.remaining_credits = 0 THEN 0 ELSE cli.remaining_credits - 1]_vars

\* C36 witness: a consumer with a window of 3 that acks has received two
\* deliveries; its third frame was an Ack and 1 credit remains.
ClientHandshakeWitness ==
    /\ cli.credits_window = 3
    /\ cli.received = 2
    /\ Len(cli.sent) >= 3 /\ cli.sent[3] = AckFrameOf
    /\ cli.remaining_credits = 1

\* C39 (client refill liveness), as claimed: for a window of 1 or more, with
\* messages left at the server, a server-side balance of 0 does not last: a
\* grant reaches the server or the messages run out.
ClientRefillLiveness ==
    (cli.pc # "new" /\ cli.credits_window >= 1 /\ cli.balance = 0)
        ~> (cli.balance > 0 \/ cli.delivered = MaxDeliveries)

\* C40 (reconnect_backoff): the delay is min(100 * 2^attempt, 5000) ms, where the
\* power is beyond 5000 from attempt 6 on; it is 100 at attempt 0 and at most
\* 5000; and of two calls the one with the larger attempt has the larger delay,
\* or the same when both are at the cap.
BackoffFormula ==
    bk.attempt # None =>
        /\ bk.delay = (IF bk.attempt >= 6 THEN 5000 ELSE Min(100 * 2 ^ bk.attempt, 5000))
        /\ bk.attempt = 0 => bk.delay = 100
        /\ bk.delay >= 100 /\ bk.delay <= 5000
        /\ (bk.prev_attempt # None /\ bk.prev_attempt <= bk.attempt) =>
              /\ bk.prev_delay <= bk.delay
              /\ (bk.prev_attempt < bk.attempt /\ bk.prev_delay < 5000) =>
                    bk.prev_delay < bk.delay

\* C40 witness: attempt 5 gave 3200 ms and the attempt after it the cap.
BackoffFormulaWitness ==
    /\ bk.prev_attempt = 5 /\ bk.prev_delay = 3200
    /\ bk.attempt = 6 /\ bk.delay = 5000

\* A request that handle_publish answered with the error of one of its checks.
RejectedReq(r) == pstate[r] = "err" /\ pstatus[r] \in {"InvalidArgument", "ResourceExhausted"}

\* C37 (a rejected publish has no effect): the step that rejects a request
\* changes nothing of the writer, its intake, the log, the topics or the
\* notifications; a rejected request is never on the intake, in a batch or in
\* the log and gets no reply of the writer; every topic in the table has a
\* committed row of a request that passed; and the sequences of a topic are
\* 1 .. n for its n committed rows, so that a rejected request takes none.
RejectedNoEffect ==
    /\ [][\A r \in Reqs :
            (pstate[r] = "new" /\ pstate'[r] # "new" /\ pvalid'.res # Passed) =>
                /\ pstate'[r] = "err"
                /\ pstatus'[r] = pvalid'.res.status
                /\ UNCHANGED <<intake, items, txn, wreply, cache, log, topicsTbl, bus,
                               notified, wpc>>]_vars
    /\ [](\A r \in Reqs :
            RejectedReq(r) =>
                /\ \A i \in 1 .. Len(intake) : intake[i] # r
                /\ \A i \in 1 .. Len(items) : items[i] # r
                /\ \A i \in 1 .. Len(txn) : txn[i].message_id # r
                /\ ~InLog(r)
                /\ wreply[r] = NoReply)
    /\ [](\A t \in Topics :
            /\ t \in topicsTbl =>
                  \E r \in Reqs : InLog(r) /\ ptopic[r] = t /\ ~RejectedReq(r)
            /\ SeqsOf(log, t) = 1 .. Cardinality(RowsOf(t))
            /\ Cardinality(RowsOf(t))
                  = Cardinality({r \in Reqs : InLog(r) /\ ptopic[r] = t}))

\* C37 witness: a request for one topic was rejected, no such topic exists and
\* nothing was notified for it, and a later request for the other topic was
\* answered with sequence 1.
RejectedNoEffectWitness ==
    \E r1, r2 \in Reqs :
        /\ r1 < r2
        /\ RejectedReq(r1) /\ ptopic[r1] = "t2"
        /\ pstate[r2] = "ok" /\ ptopic[r2] = "t1" /\ presp[r2].sequence = 1
        /\ topicsTbl = {"t1"}
        /\ \A n \in bus : n[1] # "t2"

\* C38 (credit conservation under concurrency): the balance starts at 0, and
\* while no add has overflowed, in every interleaving of the calls of the two
\* threads, what try_consume_many returned, plus the try_consume calls that
\* returned true, plus what reset returned, plus the balance, is what was added.
CreditConservation ==
    ~ctotal.overflowed =>
        ctotal.many + ctotal.one + ctotal.reset + credits = ctotal.added

\* C38 witness: the two threads raced on the balance, one compare_exchange
\* failed and was retried, and the credits added went to a try_consume, a
\* try_consume_many and the balance with no add overflowing.
CreditConservationWitness ==
    /\ ~ctotal.overflowed
    /\ ctotal.failed >= 1
    /\ ctotal.added = 2
    /\ ctotal.one = 1
    /\ ctotal.many = 1
    /\ credits = 0
    /\ \A t \in CThreads : cpc[t] = "idle"
====
